---- MODULE Spec2Model ----
(***************************************************************************)
(* Mulatschak table server: the per-table phase machine of Hub.handleMessage*)
(* (start / cut / bidding / pick_trump / exchange / play), the deck, the    *)
(* deal, the talon/swamp exchange and the trick loop.                       *)
(*                                                                          *)
(* One table is modelled.  `rooms` is the hub's registry, `clients` the     *)
(* (roomID, seat) association each connection carries, `req` the message    *)
(* the hub handled last and `won` the cards of the tricks already completed *)
(* in the running hand (the server drops them when it clears the trick).    *)
(* Two room fields are history only: handsStarted counts the startHand      *)
(* calls, swampShuffles the shuffles of the swamp in the running hand.      *)
(***************************************************************************)
EXTENDS Integers, Sequences, FiniteSets, TLC

VARIABLES rooms, clients, req, won

vars == <<rooms, clients, req, won>>

\* ------------------------------ bounds ---------------------------------
\* shuffle outcomes explored: permutation indices 0..MaxShuffle
MaxShuffle == 1
\* cut points explored: 1..MaxCut (the server draws 1..len(deck)-1)
MaxCut == 2
\* hands started on the table (startHand calls)
MaxHands == 2
\* longest prefix of the hand offered as an exchange list
MaxExchangeList == 1
\* messages a send channel may hold when a handler is taken
MaxQueued == 0

\* -------------------------- program constants --------------------------
DefaultSeats == 3
MinSeats == 2
HandSize == 5
MinBid == 1
MaxBid == 5
ExchangeMaxCards == 3

RoomIDs == {"r1"}
ClientName(i) ==
    IF i = 1 THEN "c1" ELSE IF i = 2 THEN "c2" ELSE IF i = 3 THEN "c3"
    ELSE IF i = 4 THEN "c4" ELSE IF i = 5 THEN "c5" ELSE "c6"
Clients == {ClientName(i) : i \in 1..DefaultSeats}

\* ------------------------------- cards ---------------------------------
Suits == <<"hearts", "spades", "clubs", "diamonds">>
Ranks == <<"ace", "king", "ober", "unter", "ten", "nine", "eight", "seven">>
TrumpNames == {"hearts", "spades", "clubs", "diamonds"}

Card(s, r) == [Suit |-> s, Rank |-> r]
Weli == Card("diamonds", "weli")
NoCard == Card("", "")

buildMulatschakDeck ==
    [i \in 1..33 |-> IF i = 33 THEN Weli
                     ELSE Card(Suits[((i - 1) \div 8) + 1], Ranks[((i - 1) % 8) + 1])]

isWeli(c) ==
    \/ c.Rank = "weli"
    \/ (c.Suit = "diamonds" /\ c.Rank \in {"six", "6"})

\* ---------------------------- sequences --------------------------------
Range(s) == {s[i] : i \in 1..Len(s)}
RemoveAt(s, i) == [j \in 1..(Len(s) - 1) |-> IF j < i THEN s[j] ELSE s[j + 1]]
Reverse(s) == [j \in 1..Len(s) |-> s[Len(s) + 1 - j]]
RotateLeft(s, n) ==
    IF Len(s) = 0 THEN s
    ELSE [j \in 1..Len(s) |-> s[((j - 1 + n) % Len(s)) + 1]]
\* first index of c in s (as the `for i, c := range hand` loops), 0 if absent
IndexOf(s, c) ==
    IF \E i \in 1..Len(s) : s[i] = c
    THEN CHOOSE i \in 1..Len(s) : s[i] = c /\ \A j \in 1..(i - 1) : s[j] # c
    ELSE 0

\* shuffle is a random permutation; outcome k of the explored family:
\* rotate left by k \div 2, then reverse when k is odd (k = 0 is the identity)
shuffle(deck, k) ==
    IF k % 2 = 1 THEN Reverse(RotateLeft(deck, k \div 2))
    ELSE RotateLeft(deck, k \div 2)

\* ------------------------------- rooms ---------------------------------
SeatsOf(room) == 0..(room.Seats - 1)

NewRoom(seats) ==
    [ Seats |-> seats,
      PlayerIDs |-> [s \in 0..(seats - 1) |-> ""],
      Hands |-> [s \in 0..(seats - 1) |-> <<>>],
      Lead |-> "", Trick |-> <<>>, TrickBy |-> <<>>, Turn |-> 0, HandOver |-> FALSE,
      Trump |-> "", Started |-> FALSE,
      Dealer |-> -1, FirstBidder |-> 0, Phase |-> "", Actor |-> -1,
      BestBid |-> 0, BestBy |-> -1, Passed |-> {}, RoundDouble |-> FALSE,
      Stayed |-> {}, Acted |-> {},
      CutPeek |-> NoCard, HasCutPeek |-> FALSE, WeliKeptBy |-> -1,
      stock |-> <<>>, swamp |-> <<>>, swampShuffled |-> FALSE,
      exchangeMax |-> 0, exchangeClosed |-> FALSE,
      handsStarted |-> 0, swampShuffles |-> 0 ]

Occupied(room, s) == s \in SeatsOf(room) /\ room.PlayerIDs[s] # ""

nextSeat(room, s) == IF room.Seats = 0 THEN s ELSE (s + 1) % room.Seats

\* --------------------------- game flow helpers -------------------------
startHand(room) ==
    LET dealer == IF room.Dealer = -1 THEN 0 ELSE (room.Dealer + 1) % room.Seats
        first == (dealer + 1) % room.Seats
    IN [room EXCEPT
          !.Dealer = dealer, !.FirstBidder = first,
          !.Hands = [s \in SeatsOf(room) |-> <<>>],
          !.Trick = <<>>, !.TrickBy = <<>>, !.Turn = first, !.HandOver = FALSE,
          !.Trump = "", !.Started = FALSE, !.Actor = first,
          !.BestBid = 0, !.BestBy = -1, !.Passed = {}, !.RoundDouble = FALSE,
          !.HasCutPeek = FALSE, !.CutPeek = NoCard, !.WeliKeptBy = -1,
          !.stock = <<>>, !.swamp = <<>>, !.swampShuffled = FALSE,
          !.exchangeClosed = FALSE, !.Stayed = {}, !.Acted = {},
          !.exchangeMax = ExchangeMaxCards,
          !.Phase = "start",
          !.handsStarted = @ + 1, !.swampShuffles = 0]

\* k: the shuffle outcome, cut: rand.Intn(len(deck)-1)+1
performCut(room, k, cut) ==
    LET deck == shuffle(buildMulatschakDeck, k)
        bottom == deck[cut]
    IN [room EXCEPT
          !.CutPeek = bottom, !.HasCutPeek = TRUE,
          !.WeliKeptBy = IF isWeli(bottom) THEN room.FirstBidder ELSE -1,
          !.stock = IF isWeli(bottom) THEN RemoveAt(deck, cut) ELSE deck]

\* the i/s double loop of deal, step n = i * Seats + s
RECURSIVE dealLoop(_, _)
dealLoop(room, n) ==
    IF n >= HandSize * room.Seats THEN room
    ELSE LET s == n % room.Seats IN
         IF room.PlayerIDs[s] = "" \/ Len(room.stock) = 0
         THEN dealLoop(room, n + 1)
         ELSE dealLoop([room EXCEPT !.Hands[s] = Append(@, Head(room.stock)),
                                    !.stock = Tail(@)], n + 1)

TrimTo(h, n) == IF Len(h) > n THEN SubSeq(h, 1, n) ELSE h

deal(room) ==
    LET r0 == IF room.stock = <<>>
              THEN [room EXCEPT !.stock = buildMulatschakDeck]
              ELSE room
        r1 == dealLoop(r0, 0)
        w == r1.WeliKeptBy
    IN IF w >= 0
       THEN LET hasW == \E c \in Range(r1.Hands[w]) : isWeli(c)
                h1 == IF hasW THEN r1.Hands[w] ELSE Append(r1.Hands[w], Weli)
            IN [r1 EXCEPT !.Hands[w] = TrimTo(h1, HandSize)]
       ELSE r1

\* ------------------------------ messages -------------------------------
Msg(t, seat, n, s, cards) == [t |-> t, seat |-> seat, n |-> n, s |-> s, cards |-> cards]

NoMsg == Msg("", -1, 0, "", <<>>)

\* the hub after NewHub: no table, nobody seated
InitHub ==
    /\ rooms = << >>
    /\ clients = [c \in Clients |-> [roomID |-> "", seat |-> -1, send |-> <<>>]]
    /\ req = NoMsg
    /\ won = <<>>

\* a table of `seats` seats whose first n seats were taken by join_table, in
\* the state startHand leaves it in (started by the last join when n = seats,
\* by a new_hand request otherwise)
SeatedRoom(seats, n) ==
    startHand([NewRoom(seats) EXCEPT
                 !.PlayerIDs = [s \in 0..(seats - 1) |-> IF s < n THEN ClientName(s + 1) ELSE ""]])

Tables == {<<DefaultSeats, DefaultSeats>>, <<DefaultSeats, MinSeats>>, <<MinSeats, MinSeats>>}

Init ==
    /\ \E t \in Tables :
         /\ rooms = [r \in RoomIDs |-> SeatedRoom(t[1], t[2])]
         /\ clients = [c \in Clients |->
                         IF \E s \in 0..(t[2] - 1) : ClientName(s + 1) = c
                         THEN [roomID |-> "r1",
                               seat |-> CHOOSE s \in 0..(t[2] - 1) : ClientName(s + 1) = c]
                         ELSE [roomID |-> "", seat |-> -1]]
    /\ req = NoMsg
    /\ won = <<>>

\* ---------------------------- state sending ---------------------------
\* the cutPeek field of the state message for a receiver whatever its seat
cutPeekForAnySeat(toSeat, r) ==
    IF r.Phase = "cut" /\ r.HasCutPeek THEN <<r.CutPeek>> ELSE <<>>

\* the cutPeek field of the state message: <<>> is null
cutPeekFor(toSeat, r) ==
    IF r.Phase = "cut" /\ toSeat = r.FirstBidder /\ r.HasCutPeek THEN <<r.CutPeek>> ELSE <<>>

\* the state message sendStateTo builds for a receiver whose seat field is
\* toSeat (a seat the room's map has no hand for reads as the empty hand)
sendStateTo(toSeat, r) ==
    [ phase |-> r.Phase, actor |-> r.Actor,
      dealer |-> r.Dealer, firstBidder |-> r.FirstBidder,
      bestBid |-> r.BestBid, bestBy |-> r.BestBy,
      passed |-> r.Passed, roundDouble |-> r.RoundDouble, stayed |-> r.Stayed,
      cutPeek |-> cutPeekFor(toSeat, r),
      turn |-> r.Turn, trump |-> r.Trump, lead |-> r.Lead,
      trick |-> [i \in 1..Len(r.Trick) |->
                   [suit |-> r.Trick[i].Suit, rank |-> r.Trick[i].Rank, by |-> r.TrickBy[i]]],
      you |-> IF toSeat \in SeatsOf(r) THEN r.Hands[toSeat] ELSE <<>>,
      counts |-> [s \in SeatsOf(r) |-> Len(r.Hands[s])],
      talon |-> Len(r.stock), swamp |-> Len(r.swamp),
      exchangeMax |-> r.exchangeMax, started |-> r.Started, handOver |-> r.HandOver,
      names |-> r.PlayerIDs, seat |-> toSeat ]

\* ------------------------------ sending --------------------------------
\* capacity of a connection's send channel
SendCap == 32

\* handlers are taken while every send channel holds at most MaxQueued
\* messages (writePump drains the channels meanwhile) or is within one
\* message of its capacity (a connection whose writePump is stalled)
CanHandle ==
    \A c \in Clients :
        Len(clients[c].send) <= MaxQueued \/ Len(clients[c].send) >= SendCap - 1

StateMsg(m) == [t |-> "state", m |-> m]
ErrorMsg(text) == [t |-> "error", m |-> text]
CreatedMsg(rid) == [t |-> "created", m |-> rid]

\* variant of send: a full channel loses its oldest message to the new one
sendDropOldest(cl, c, msg) ==
    IF Len(cl[c].send) < SendCap THEN [cl EXCEPT ![c].send = Append(@, msg)]
    ELSE [cl EXCEPT ![c].send = Append(Tail(@), msg)]

\* select { case c.send <- b: default: } on the connections cl; the rooms
\* list messages of sendRoomsList are not put into the channels
send(cl, c, msg) ==
    IF Len(cl[c].send) < SendCap THEN [cl EXCEPT ![c].send = Append(@, msg)] ELSE cl

\* broadcastState: a state message for every connection in room.Conns (the
\* connection of seat s is the one PlayerIDs[s] names), built for that
\* connection's own seat field
RECURSIVE broadcastFrom(_, _, _)
broadcastFrom(cl, room, s) ==
    IF s >= room.Seats THEN cl
    ELSE LET id == room.PlayerIDs[s] IN
         IF id = "" THEN broadcastFrom(cl, room, s + 1)
         ELSE broadcastFrom(send(cl, id, StateMsg(sendStateTo(cl[id].seat, room))), room, s + 1)

broadcastState(cl, room) == broadcastFrom(cl, room, 0)

\* writePump: the next message of the channel goes out on the connection
WritePump(c) ==
    /\ clients[c].send # <<>>
    /\ clients' = [clients EXCEPT ![c].send = Tail(@)]
    /\ UNCHANGED <<rooms, req, won>>

\* ------------------------------- lobby ---------------------------------
\* create_table: seats is the payload's seat count, clamped from below; rid
\* is the fresh id randID returns
CreateTable(c, rid, seats) ==
    /\ CanHandle
    /\ rid \notin DOMAIN rooms
    /\ rooms' = [r \in (DOMAIN rooms) \cup {rid} |->
                   IF r = rid THEN NewRoom(IF seats < MinSeats THEN MinSeats ELSE seats)
                   ELSE rooms[r]]
    /\ req' = Msg("create_table", -1, seats, c, <<>>)
    /\ clients' = send(clients, c, CreatedMsg(rid))
    /\ UNCHANGED won

FirstEmptySeat(room) ==
    IF \E i \in SeatsOf(room) : room.PlayerIDs[i] = ""
    THEN CHOOSE i \in SeatsOf(room) :
            room.PlayerIDs[i] = "" /\ \A j \in 0..(i - 1) : room.PlayerIDs[j] # ""
    ELSE -1

IsFull(room) == \A s \in SeatsOf(room) : room.PlayerIDs[s] # ""

\* variant of sendError: the error goes to every connection
sendErrorToAll(cl, c, text) ==
    [d \in Clients |-> [cl[d] EXCEPT !.send = Append(@, ErrorMsg(text))]]

\* the error reply of join_table, to the requester
sendError(cl, c, text) == send(cl, c, ErrorMsg(text))

\* join_table: the first empty seat goes to c whether or not c already sits
\* somewhere; c gets the state, then the table is started or the state is
\* broadcast
JoinTable(c, rid) ==
    /\ CanHandle
    /\ req' = Msg("join_table", -1, 0, c, <<>>)
    /\ IF rid \notin DOMAIN rooms
       THEN /\ clients' = sendError(clients, c, "room not found")
            /\ UNCHANGED <<rooms, won>>
       ELSE LET room == rooms[rid]
                seat == FirstEmptySeat(room)
            IN IF seat = -1
               THEN /\ clients' = sendError(clients, c, "room full")
                    /\ UNCHANGED <<rooms, won>>
               ELSE LET r1 == [room EXCEPT !.PlayerIDs[seat] = c]
                        cl1 == [clients EXCEPT ![c].roomID = rid, ![c].seat = seat]
                        cl2 == send(cl1, c, StateMsg(sendStateTo(seat, r1)))
                        r2 == IF IsFull(r1) /\ ~r1.Started /\ r1.Dealer = -1
                              THEN startHand(r1) ELSE r1
                    IN /\ rooms' = [rooms EXCEPT ![rid] = r2]
                       /\ clients' = broadcastState(cl2, r2)
                       /\ won' = IF r2 = r1 THEN won ELSE <<>>

\* removeClient on the rooms rms: the seat c's fields name is freed if c is
\* the connection in it, and a table nobody sits at is deleted
removeClient(rms, c) ==
    LET rid == clients[c].roomID
        seat == clients[c].seat
    IN IF rid # "" /\ seat >= 0 /\ rid \in DOMAIN rms /\ rms[rid].PlayerIDs[seat] = c
       THEN LET r1 == [rms[rid] EXCEPT !.PlayerIDs[seat] = "", !.Hands[seat] = <<>>]
            IN IF \A s \in SeatsOf(r1) : r1.PlayerIDs[s] = ""
               THEN [r \in (DOMAIN rms) \ {rid} |-> rms[r]]
               ELSE [rms EXCEPT ![rid] = r1]
       ELSE rms

\* leave_table: removeClient; the connection stays open and keeps its roomID
\* and seat fields
LeaveTable(c) ==
    /\ CanHandle
    /\ clients[c].roomID # ""
    /\ req' = Msg("leave_table", clients[c].seat, 0, c, <<>>)
    /\ rooms' = removeClient(rooms, c)
    /\ UNCHANGED <<clients, won>>

NewHand(rid) ==
    /\ rid \in DOMAIN rooms
    /\ rooms[rid].handsStarted < MaxHands
    /\ req' = Msg("new_hand", -1, 0, "", <<>>)
    /\ rooms' = [rooms EXCEPT ![rid] = startHand(rooms[rid])]
    /\ won' = <<>>
    /\ UNCHANGED clients

StartChoiceApplies(room, seat) == room.Phase = "start" /\ seat = room.FirstBidder

StartChoiceEffect(room, choice, k, cut) ==
    LET r1 == IF choice = "knock" THEN [room EXCEPT !.RoundDouble = TRUE] ELSE room
        r2 == performCut(r1, k, cut)
    IN [r2 EXCEPT !.Phase = "cut", !.Actor = r2.FirstBidder]

StartChoice(rid, seat, choice, k, cut) ==
    /\ IF rid \in DOMAIN rooms /\ StartChoiceApplies(rooms[rid], seat)
       THEN /\ req' = Msg("start_choice", seat, cut, choice, <<>>)
            /\ rooms' = [rooms EXCEPT ![rid] = StartChoiceEffect(rooms[rid], choice, k, cut)]
       ELSE UNCHANGED <<rooms, req>>
    /\ UNCHANGED <<clients, won>>

CutProceedApplies(room, seat) == room.Phase = "cut" /\ seat = room.FirstBidder

CutProceedEffect(room) ==
    LET r1 == deal(room)
    IN [r1 EXCEPT !.Phase = "bidding", !.Actor = r1.FirstBidder,
                  !.BestBid = 0, !.BestBy = -1, !.Passed = {},
                  !.HasCutPeek = FALSE, !.CutPeek = NoCard]

CutProceed(rid, seat) ==
    /\ IF rid \in DOMAIN rooms /\ CutProceedApplies(rooms[rid], seat)
       THEN /\ req' = Msg("cut_proceed", seat, 0, "", <<>>)
            /\ rooms' = [rooms EXCEPT ![rid] = CutProceedEffect(rooms[rid])]
       ELSE UNCHANGED <<rooms, req>>
    /\ UNCHANGED <<clients, won>>

\* ------------------------------- auction -------------------------------
\* the actor-advance loop of "pass": at most Seats further steps from adv
RECURSIVE advanceActor(_, _, _)
advanceActor(room, adv, i) ==
    IF i >= room.Seats THEN adv
    ELSE IF adv \notin room.Passed /\ room.PlayerIDs[adv] # "" THEN adv
    ELSE advanceActor(room, nextSeat(room, adv), i + 1)

ActiveBidders(room) == {s \in SeatsOf(room) : room.PlayerIDs[s] # "" /\ s \notin room.Passed}

RECURSIVE nextActiveFrom(_, _, _)
nextActiveFrom(room, from, i) ==
    IF i > room.Seats THEN from
    ELSE LET s == (from + i) % room.Seats IN
         IF room.PlayerIDs[s] # "" /\ s \notin room.Passed THEN s
         ELSE nextActiveFrom(room, from, i + 1)

nextActiveBidder(room, from) == nextActiveFrom(room, from, 1)

startExchange(room) ==
    [room EXCEPT !.Phase = "exchange", !.Actor = room.BestBy,
                 !.exchangeClosed = FALSE, !.Stayed = {}, !.Acted = {}]

\* the guard of "pass"
PassApplies(room, seat) == room.Phase = "bidding" /\ seat \notin room.Passed

\* variant of PassEffect: a winning bid of 1 starts play at once, without exchange
PassEffectToPlay(room, seat) ==
    LET r1 == [room EXCEPT !.Passed = @ \cup {seat}]
        r2 == [r1 EXCEPT !.Actor = advanceActor(r1, nextSeat(r1, r1.Actor), 0)]
        active == Cardinality(ActiveBidders(r2))
    IN IF active = 1 /\ r2.BestBy # -1
       THEN LET r3 == [r2 EXCEPT !.Actor = r2.BestBy]
            IN IF r3.BestBid = 1
               THEN [r3 EXCEPT !.Trump = "hearts", !.Phase = "play",
                               !.Turn = r3.BestBy, !.Started = TRUE]
               ELSE [r3 EXCEPT !.Phase = "pick_trump"]
       ELSE r2

\* variant of PassEffect: the winner of the auction always picks trump
PassEffectPickAlways(room, seat) ==
    LET r1 == [room EXCEPT !.Passed = @ \cup {seat}]
        r2 == [r1 EXCEPT !.Actor = advanceActor(r1, nextSeat(r1, r1.Actor), 0)]
        active == Cardinality(ActiveBidders(r2))
    IN IF active = 1 /\ r2.BestBy # -1
       THEN [r2 EXCEPT !.Actor = r2.BestBy, !.Phase = "pick_trump"]
       ELSE r2

PassEffect(room, seat) ==
    LET r1 == [room EXCEPT !.Passed = @ \cup {seat}]
        r2 == [r1 EXCEPT !.Actor = advanceActor(r1, nextSeat(r1, r1.Actor), 0)]
        active == Cardinality(ActiveBidders(r2))
    IN IF active = 1 /\ r2.BestBy # -1
       THEN LET r3 == [r2 EXCEPT !.Actor = r2.BestBy]
            IN IF r3.BestBid = 1
               THEN startExchange([r3 EXCEPT !.Trump = "hearts"])
               ELSE [r3 EXCEPT !.Phase = "pick_trump"]
       ELSE r2

Pass(rid, seat) ==
    /\ IF rid \in DOMAIN rooms /\ PassApplies(rooms[rid], seat)
       THEN /\ req' = Msg("pass", seat, 0, "", <<>>)
            /\ rooms' = [rooms EXCEPT ![rid] = PassEffect(rooms[rid], seat)]
       ELSE UNCHANGED <<rooms, req>>
    /\ UNCHANGED <<clients, won>>

\* the guards of "bid"
BidApplies(room, seat, bid) ==
    /\ room.Phase = "bidding" /\ seat = room.Actor
    /\ bid >= MinBid /\ bid <= MaxBid /\ bid > room.BestBid

\* variant of BidEffect: a bid of 1 fixes trump to hearts when it is recorded
BidEffectHearts(room, seat, bid) ==
    LET r1 == [room EXCEPT !.BestBid = bid, !.BestBy = seat,
                           !.Trump = IF bid = 1 THEN "hearts" ELSE @]
    IN [r1 EXCEPT !.Actor = nextActiveBidder(r1, seat)]

BidEffect(room, seat, bid) ==
    LET r1 == [room EXCEPT !.BestBid = bid, !.BestBy = seat]
    IN [r1 EXCEPT !.Actor = nextActiveBidder(r1, seat)]

Bid(rid, seat, bid) ==
    /\ IF rid \in DOMAIN rooms /\ BidApplies(rooms[rid], seat, bid)
       THEN /\ req' = Msg("bid", seat, bid, "", <<>>)
            /\ rooms' = [rooms EXCEPT ![rid] = BidEffect(rooms[rid], seat, bid)]
       ELSE UNCHANGED <<rooms, req>>
    /\ UNCHANGED <<clients, won>>

\* variant of PickTrumpApplies: any trump name is taken
PickTrumpAppliesAnySuit(room, seat, tr) ==
    room.Phase = "pick_trump" /\ seat = room.BestBy

PickTrumpApplies(room, seat, tr) ==
    /\ room.Phase = "pick_trump" /\ seat = room.BestBy
    /\ tr \in TrumpNames

PickTrumpEffect(room, tr) == startExchange([room EXCEPT !.Trump = tr])

PickTrump(rid, seat, tr) ==
    /\ IF rid \in DOMAIN rooms /\ PickTrumpApplies(rooms[rid], seat, tr)
       THEN /\ req' = Msg("pick_trump", seat, 0, tr, <<>>)
            /\ rooms' = [rooms EXCEPT ![rid] = PickTrumpEffect(rooms[rid], tr)]
       ELSE UNCHANGED <<rooms, req>>
    /\ UNCHANGED <<clients, won>>

\* ------------------------------ exchange -------------------------------
RECURSIVE nextUnacted(_, _, _)
nextUnacted(room, next, i) ==
    IF i >= room.Seats THEN room.Actor
    ELSE IF room.PlayerIDs[next] # "" /\ next \notin room.Acted THEN next
    ELSE nextUnacted(room, nextSeat(room, next), i + 1)

\* variant of advanceExchangeOrStartPlay: the first bidder leads the first trick
advanceExchangeFirstBidderLeads(room) ==
    IF \A s \in SeatsOf(room) : room.PlayerIDs[s] = "" \/ s \in room.Acted
    THEN [room EXCEPT !.exchangeClosed = TRUE, !.Phase = "play",
                      !.Turn = room.FirstBidder, !.Started = TRUE]
    ELSE [room EXCEPT !.Actor = nextUnacted(room, nextSeat(room, room.Actor), 0)]

advanceExchangeOrStartPlay(room) ==
    IF \A s \in SeatsOf(room) : room.PlayerIDs[s] = "" \/ s \in room.Acted
    THEN [room EXCEPT !.exchangeClosed = TRUE, !.Phase = "play",
                      !.Turn = room.BestBy, !.Started = TRUE]
    ELSE [room EXCEPT !.Actor = nextUnacted(room, nextSeat(room, room.Actor), 0)]

\* variant of StayHomeApplies: staying home is allowed under every trump
StayHomeAppliesAnyTrump(room, seat) ==
    /\ room.Phase = "exchange" /\ seat = room.Actor /\ seat \notin room.Acted
    /\ seat # room.BestBy

StayHomeApplies(room, seat) ==
    /\ room.Phase = "exchange" /\ seat = room.Actor /\ seat \notin room.Acted
    /\ seat # room.BestBy /\ room.Trump # "clubs"

StayHomeEffect(room, seat) ==
    advanceExchangeOrStartPlay([room EXCEPT !.Stayed = @ \cup {seat}, !.Acted = @ \cup {seat}])

StayHome(rid, seat) ==
    /\ IF rid \in DOMAIN rooms /\ StayHomeApplies(rooms[rid], seat)
       THEN /\ req' = Msg("stay_home", seat, 0, "", <<>>)
            /\ rooms' = [rooms EXCEPT ![rid] = StayHomeEffect(rooms[rid], seat)]
       ELSE UNCHANGED <<rooms, req>>
    /\ UNCHANGED <<clients, won>>

\* variant of discardCards: the discarded card is copied to the swamp but stays in the hand
RECURSIVE discardCardsKeep(_, _, _, _)
discardCardsKeep(room, seat, cards, i) ==
    IF i > Len(cards) THEN room
    ELSE LET idx == IndexOf(room.Hands[seat], cards[i]) IN
         IF idx >= 1
         THEN discardCardsKeep([room EXCEPT !.swamp = Append(@, room.Hands[seat][idx])],
                               seat, cards, i + 1)
         ELSE discardCardsKeep(room, seat, cards, i + 1)

\* discards -> swamp, one listed card after the other
RECURSIVE discardCards(_, _, _, _)
discardCards(room, seat, cards, i) ==
    IF i > Len(cards) THEN room
    ELSE LET idx == IndexOf(room.Hands[seat], cards[i]) IN
         IF idx >= 1
         THEN discardCards([room EXCEPT !.swamp = Append(@, room.Hands[seat][idx]),
                                        !.Hands[seat] = RemoveAt(@, idx)],
                           seat, cards, i + 1)
         ELSE discardCards(room, seat, cards, i + 1)

Min(a, b) == IF a < b THEN a ELSE b

\* variant of drawReplacements: the swamp is drawn from before the talon
drawReplacementsSwampFirst(room, seat, n, k) ==
    LET sw == IF room.swampShuffled \/ Len(room.swamp) = 0 THEN room.swamp
              ELSE shuffle(room.swamp, k)
        fromSwamp == Min(n, Len(sw))
        r1 == [room EXCEPT !.Hands[seat] = @ \o SubSeq(sw, 1, fromSwamp),
                           !.swamp = SubSeq(sw, fromSwamp + 1, Len(sw)),
                           !.swampShuffled = @ \/ Len(sw) > 0,
                           !.swampShuffles = IF room.swampShuffled \/ Len(sw) = 0
                                             THEN @ ELSE @ + 1]
        fromStock == Min(n - fromSwamp, Len(r1.stock))
    IN [r1 EXCEPT !.Hands[seat] = @ \o SubSeq(r1.stock, 1, fromStock),
                  !.stock = SubSeq(@, fromStock + 1, Len(@))]

\* variant of drawReplacements: the swamp is shuffled at every draw from it
drawReplacementsReshuffle(room, seat, n, k) ==
    LET fromStock == Min(n, Len(room.stock))
        r1 == [room EXCEPT !.Hands[seat] = @ \o SubSeq(room.stock, 1, fromStock),
                           !.stock = SubSeq(@, fromStock + 1, Len(@))]
        need == n - fromStock
    IN IF need > 0 /\ Len(r1.swamp) > 0
       THEN LET sw == shuffle(r1.swamp, k)
                fromSwamp == Min(need, Len(sw))
            IN [r1 EXCEPT !.Hands[seat] = @ \o SubSeq(sw, 1, fromSwamp),
                          !.swamp = SubSeq(sw, fromSwamp + 1, Len(sw)),
                          !.swampShuffled = TRUE,
                          !.swampShuffles = @ + 1]
       ELSE r1

\* replacements: talon first, then the swamp (shuffled on first use, outcome k)
drawReplacements(room, seat, n, k) ==
    LET fromStock == Min(n, Len(room.stock))
        r1 == [room EXCEPT !.Hands[seat] = @ \o SubSeq(room.stock, 1, fromStock),
                           !.stock = SubSeq(@, fromStock + 1, Len(@))]
        need == n - fromStock
    IN IF need > 0 /\ Len(r1.swamp) > 0
       THEN LET sw == IF r1.swampShuffled THEN r1.swamp ELSE shuffle(r1.swamp, k)
                fromSwamp == Min(need, Len(sw))
            IN [r1 EXCEPT !.Hands[seat] = @ \o SubSeq(sw, 1, fromSwamp),
                          !.swamp = SubSeq(sw, fromSwamp + 1, Len(sw)),
                          !.swampShuffled = TRUE,
                          !.swampShuffles = IF r1.swampShuffled THEN @ ELSE @ + 1]
       ELSE r1

ExchangeApplies(room, seat, cards) ==
    /\ room.Phase = "exchange" /\ seat = room.Actor
    /\ seat \notin room.Acted /\ seat \notin room.Stayed
    /\ Len(cards) >= 1 /\ Len(cards) <= room.exchangeMax

ExchangeEffect(room, seat, cards, k) ==
    LET r1 == discardCards(room, seat, cards, 1)
        r2 == drawReplacements(r1, seat, Len(cards), k)
    IN advanceExchangeOrStartPlay([r2 EXCEPT !.Acted = @ \cup {seat}])

Exchange(rid, seat, cards, k) ==
    /\ IF rid \in DOMAIN rooms /\ ExchangeApplies(rooms[rid], seat, cards)
       THEN /\ req' = Msg("exchange", seat, 0, "", cards)
            /\ rooms' = [rooms EXCEPT ![rid] = ExchangeEffect(rooms[rid], seat, cards, k)]
       ELSE UNCHANGED <<rooms, req>>
    /\ UNCHANGED <<clients, won>>

ExchangeDoneApplies(room, seat) ==
    room.Phase = "exchange" /\ seat = room.Actor /\ seat \notin room.Acted

ExchangeDoneEffect(room, seat) ==
    advanceExchangeOrStartPlay([room EXCEPT !.Acted = @ \cup {seat}])

ExchangeDone(rid, seat) ==
    /\ IF rid \in DOMAIN rooms /\ ExchangeDoneApplies(rooms[rid], seat)
       THEN /\ req' = Msg("exchange_done", seat, 0, "", <<>>)
            /\ rooms' = [rooms EXCEPT ![rid] = ExchangeDoneEffect(rooms[rid], seat)]
       ELSE UNCHANGED <<rooms, req>>
    /\ UNCHANGED <<clients, won>>

\* -------------------------------- play ---------------------------------
InPlayers(room) == {s \in SeatsOf(room) : room.PlayerIDs[s] # "" /\ s \notin room.Stayed}

countInPlayers(room) == Cardinality(InPlayers(room))

RECURSIVE nextInFrom(_, _, _)
nextInFrom(room, from, i) ==
    IF i > room.Seats THEN from
    ELSE LET s == (from + i) % room.Seats IN
         IF room.PlayerIDs[s] # "" /\ s \notin room.Stayed THEN s
         ELSE nextInFrom(room, from, i + 1)

\* variant of nextInSeat: the turn goes to the next seat, stayed or not
nextInSeatNoSkip(room, from) == (from + 1) % room.Seats

nextInSeat(room, from) == nextInFrom(room, from, 1)

\* variant of MoveApplies: the seat = Turn test is missing
MoveAppliesAnySeat(room, seat, mv, card) ==
    /\ room.Phase = "play" /\ mv = "play_card" /\ seat \in SeatsOf(room)
    /\ ~room.HandOver /\ seat \notin room.Stayed
    /\ IndexOf(room.Hands[seat], card) >= 1

MoveApplies(room, seat, mv, card) ==
    /\ room.Phase = "play" /\ mv = "play_card" /\ seat = room.Turn
    /\ ~room.HandOver /\ seat \notin room.Stayed
    /\ IndexOf(room.Hands[seat], card) >= 1

HandsEmpty(room) ==
    \A s \in SeatsOf(room) :
        ~(room.PlayerIDs[s] # "" /\ s \notin room.Stayed /\ Len(room.Hands[s]) > 0)

\* variant of TrickComplete: a trick takes one card of every seat of the table
TrickCompleteAllSeats(room) == Len(room.TrickBy) = room.Seats

TrickComplete(room) == Len(room.TrickBy) = countInPlayers(room)

MoveEffect(room, seat, card) ==
    LET hi == IndexOf(room.Hands[seat], card)
        r1 == [room EXCEPT !.Trick = Append(@, room.Hands[seat][hi]),
                           !.TrickBy = Append(@, seat),
                           !.Hands[seat] = RemoveAt(@, hi)]
        r2 == IF Len(r1.Trick) = 1 THEN [r1 EXCEPT !.Lead = r1.Trick[1].Suit] ELSE r1
        r3 == [r2 EXCEPT !.Turn = nextInSeat(r2, seat)]
    IN IF TrickComplete(r3)
       THEN LET r4 == [r3 EXCEPT !.Turn = r3.TrickBy[1], !.Trick = <<>>,
                                 !.TrickBy = <<>>, !.Lead = ""]
            IN IF HandsEmpty(r4)
               THEN [r4 EXCEPT !.HandOver = TRUE, !.Started = FALSE, !.Phase = ""]
               ELSE r4
       ELSE r3

\* the cards the completed trick takes off the table (they leave the room state)
WonBy(room, seat, card) ==
    LET r1 == [room EXCEPT !.Trick = Append(@, card), !.TrickBy = Append(@, seat)]
    IN IF TrickComplete(r1) THEN r1.Trick ELSE <<>>

Move(rid, seat, mv, card) ==
    /\ IF rid \in DOMAIN rooms /\ MoveApplies(rooms[rid], seat, mv, card)
       THEN /\ req' = Msg("move", seat, 0, mv, <<card>>)
            /\ rooms' = [rooms EXCEPT ![rid] = MoveEffect(rooms[rid], seat, card)]
            /\ won' = won \o WonBy(rooms[rid], seat, card)
       ELSE UNCHANGED <<rooms, won, req>>
    /\ UNCHANGED clients

\* --------------------- trick rules (ServeWS, hub.go) --------------------
\* the deck of ServeWS before the shuffle: English rank names
DeckRanks == <<"ace", "king", "queen", "jack", "ten", "nine", "eight", "seven">>
DeckSuits == <<"clubs", "spades", "hearts", "diamonds">>

mkDeck33 ==
    [i \in 1..33 |-> IF i = 33 THEN Weli
                     ELSE Card(DeckSuits[((i - 1) \div 8) + 1], DeckRanks[((i - 1) % 8) + 1])]

\* the rankVal map; a name that is not a key reads as the zero value 0
rankVal(r) ==
    IF r = "ace" THEN 7 ELSE IF r = "king" THEN 6 ELSE IF r = "queen" THEN 5
    ELSE IF r = "jack" THEN 4 ELSE IF r = "ten" THEN 3 ELSE IF r = "nine" THEN 2
    ELSE IF r = "eight" THEN 1 ELSE 0

\* removeCard: the first matching card is overwritten by the last one
removeCard(hand, c) ==
    LET i == IndexOf(hand, c) IN
    IF i = 0 THEN hand
    ELSE [j \in 1..(Len(hand) - 1) |-> IF j = i THEN hand[Len(hand)] ELSE hand[j]]

hasSuit(hand, suit, trump) ==
    \E i \in 1..Len(hand) :
        IF suit = trump THEN hand[i].Rank = "weli" \/ hand[i].Suit = trump
        ELSE hand[i].Suit = suit /\ hand[i].Rank # "weli"

followsSuit(c, lead, trump) ==
    IF lead = trump THEN c.Rank = "weli" \/ c.Suit = trump
    ELSE c.Suit = lead /\ c.Rank # "weli"

\* variant of trumpScore: the Weli is the highest trump
trumpScoreWeliTop(c, trump) ==
    IF c.Rank = "weli" THEN 101
    ELSE IF c.Rank = "ace" /\ c.Suit = trump THEN 100
    ELSE 50 + rankVal(c.Rank)

\* the score of a trump card in the first loop of trickWinner
trumpScore(c, trump) ==
    IF c.Rank = "weli" THEN 99
    ELSE IF c.Rank = "ace" /\ c.Suit = trump THEN 100
    ELSE 50 + rankVal(c.Rank)

\* first loop of trickWinner: <<bestIdx, bestScore>> over the trumps from card i on
RECURSIVE bestTrump(_, _, _, _)
bestTrump(trick, trump, i, best) ==
    IF i > Len(trick) THEN best
    ELSE IF (trick[i].Rank = "weli" \/ trick[i].Suit = trump)
            /\ trumpScore(trick[i], trump) > best[2]
         THEN bestTrump(trick, trump, i + 1, <<i, trumpScore(trick[i], trump)>>)
         ELSE bestTrump(trick, trump, i + 1, best)

\* second loop: the same over the cards of the lead suit
RECURSIVE bestLead(_, _, _, _)
bestLead(trick, lead, i, best) ==
    IF i > Len(trick) THEN best
    ELSE IF lead # "" /\ trick[i].Suit = lead /\ trick[i].Rank # "weli"
            /\ rankVal(trick[i].Rank) > best[2]
         THEN bestLead(trick, lead, i + 1, <<i, rankVal(trick[i].Rank)>>)
         ELSE bestLead(trick, lead, i + 1, best)

\* indices are 1-based here, so "no index" is 0
trickWinner(trick, by, trump, lead) ==
    LET t == bestTrump(trick, trump, 1, <<0, -1>>) IN
    IF t[1] >= 1 THEN by[t[1]]
    ELSE LET l == bestLead(trick, lead, 1, <<0, -1>>)
         IN by[IF l[1] < 1 THEN 1 ELSE l[1]]

\* ServeWS case "move": follow suit is enforced and the trick goes to trickWinner
ServeMoveApplies(room, seat, typ, c) ==
    /\ room.Phase = "play" /\ room.Started /\ ~room.HandOver
    /\ seat = room.Turn /\ typ = "play_card"
    /\ ~(Len(room.Trick) > 0 /\ hasSuit(room.Hands[seat], room.Lead, room.Trump)
          /\ ~followsSuit(c, room.Lead, room.Trump))
    /\ IndexOf(room.Hands[seat], c) >= 1

ServeMoveEffect(room, seat, c) ==
    LET r1 == [room EXCEPT !.Hands[seat] = removeCard(@, c)]
        r2 == IF Len(r1.Trick) = 0
              THEN [r1 EXCEPT !.Lead = IF c.Rank = "weli" THEN r1.Trump ELSE c.Suit]
              ELSE r1
        r3 == [r2 EXCEPT !.Trick = Append(@, c), !.TrickBy = Append(@, seat)]
    IN IF Len(r3.Trick) = r3.Seats
       THEN LET winner == trickWinner(r3.Trick, r3.TrickBy, r3.Trump, r3.Lead)
                r4 == [r3 EXCEPT !.Trick = <<>>, !.TrickBy = <<>>, !.Lead = "",
                                 !.Turn = winner]
            IN IF \A s \in SeatsOf(r4) : Len(r4.Hands[s]) = 0
               THEN [r4 EXCEPT !.HandOver = TRUE, !.Started = FALSE]
               ELSE r4
       ELSE [r3 EXCEPT !.Turn = (r3.Turn + 1) % r3.Seats]

ServeMove(rid, seat, typ, c) ==
    /\ IF rid \in DOMAIN rooms /\ seat \in SeatsOf(rooms[rid])
          /\ ServeMoveApplies(rooms[rid], seat, typ, c)
       THEN /\ req' = Msg("move", seat, 0, typ, <<c>>)
            /\ rooms' = [rooms EXCEPT ![rid] = ServeMoveEffect(rooms[rid], seat, c)]
            /\ won' = won \o (IF Len(rooms[rid].Trick) + 1 = rooms[rid].Seats
                               THEN Append(rooms[rid].Trick, c) ELSE <<>>)
       ELSE UNCHANGED <<rooms, won, req>>
    /\ UNCHANGED clients

\* ------------------------------- inputs --------------------------------
SeatInputs(rid) == IF rid \in DOMAIN rooms THEN 0..rooms[rid].Seats ELSE {0}
ActorOf(rid) == IF rid \in DOMAIN rooms THEN {rooms[rid].Actor} ELSE {}
BidInputs == (MinBid - 1)..(MaxBid + 1)
LowBids == {MinBid, MinBid + 1}
TrumpInputs == TrumpNames \cup {"acorns"}
SomeTrumps == {"spades", "clubs", "acorns"}
HandOf(rid, seat) ==
    IF rid \in DOMAIN rooms /\ seat \in SeatsOf(rooms[rid]) THEN rooms[rid].Hands[seat] ELSE <<>>
\* the first card of the deck that the seat does not hold
ForeignCard(rid, seat) ==
    LET out == {i \in 1..33 : buildMulatschakDeck[i] \notin Range(HandOf(rid, seat))}
    IN buildMulatschakDeck[CHOOSE i \in out : \A j \in out : i <= j]
\* exchange lists: prefixes of the hand, the first card twice, a card not held
ExchangeInputs(rid, seat) ==
    LET h == HandOf(rid, seat) IN
    {SubSeq(h, 1, n) : n \in 0..Min(Len(h), MaxExchangeList)}
      \cup (IF Len(h) > 0 THEN {<<h[1], h[1]>>} ELSE {})
      \cup {<<ForeignCard(rid, seat)>>}
\* cards named by a move: the first card of the hand, or a card not held
MoveInputs(rid, seat) ==
    LET h == HandOf(rid, seat) IN
    (IF Len(h) > 0 THEN {h[1]} ELSE {}) \cup {ForeignCard(rid, seat)}

\* ---------------------------- specifications ---------------------------
\* Spec: a whole hand from start to hand over; every cut and shuffle outcome,
\* every seat value and every exchange list of the input sets, in-turn passes
\* and the two lowest bids.
Next ==
    \/ \E rid \in RoomIDs : NewHand(rid)
    \/ \E rid \in RoomIDs : \E seat \in SeatInputs(rid),
          k \in 0..MaxShuffle, cut \in 1..MaxCut : StartChoice(rid, seat, "cut", k, cut)
    \/ \E rid \in RoomIDs : \E seat \in SeatInputs(rid) : CutProceed(rid, seat)
    \/ \E rid \in RoomIDs : \E seat \in ActorOf(rid) : Pass(rid, seat)
    \/ \E rid \in RoomIDs : \E seat \in SeatInputs(rid), bid \in LowBids : Bid(rid, seat, bid)
    \/ \E rid \in RoomIDs : \E seat \in SeatInputs(rid), tr \in SomeTrumps : PickTrump(rid, seat, tr)
    \/ \E rid \in RoomIDs : \E seat \in SeatInputs(rid) : StayHome(rid, seat)
    \/ \E rid \in RoomIDs : \E seat \in SeatInputs(rid) :
          \E cards \in ExchangeInputs(rid, seat), k \in 0..MaxShuffle : Exchange(rid, seat, cards, k)
    \/ \E rid \in RoomIDs : \E seat \in SeatInputs(rid) : ExchangeDone(rid, seat)
    \/ \E rid \in RoomIDs : \E seat \in SeatInputs(rid) :
          \E card \in MoveInputs(rid, seat), mv \in {"play_card", "peek"} : Move(rid, seat, mv, card)

Spec == Init /\ [][Next]_vars

\* SpecAuction: the table up to the end of the auction; every seat value
\* (also out of turn and off the table), every bid 0..6 and every trump name.
NextAuction ==
    \/ \E rid \in RoomIDs : NewHand(rid)
    \/ \E rid \in RoomIDs : \E seat \in SeatInputs(rid), choice \in {"cut", "knock"} :
          StartChoice(rid, seat, choice, 0, 1)
    \/ \E rid \in RoomIDs : \E seat \in SeatInputs(rid) : CutProceed(rid, seat)
    \/ \E rid \in RoomIDs : \E seat \in SeatInputs(rid) : Pass(rid, seat)
    \/ \E rid \in RoomIDs : \E seat \in SeatInputs(rid), bid \in BidInputs : Bid(rid, seat, bid)
    \/ \E rid \in RoomIDs : \E seat \in SeatInputs(rid), tr \in TrumpInputs : PickTrump(rid, seat, tr)

SpecAuction == Init /\ [][NextAuction]_vars

\* WF on the awaited seat: whenever the seat named by actor can pass or bid
\* with effect, it eventually does
AwaitedSeatActs ==
    \E rid \in RoomIDs : \E seat \in ActorOf(rid) :
        \/ Pass(rid, seat) /\ rooms' # rooms
        \/ \E bid \in BidInputs : Bid(rid, seat, bid) /\ rooms' # rooms

SpecAuctionFair == Init /\ [][NextAuction]_vars /\ WF_vars(AwaitedSeatActs)

\* WF on the seat named by turn: whenever it can play a card of the input set
\* with effect, it eventually does
TurnSeatPlays ==
    \E rid \in RoomIDs : \E seat \in SeatInputs(rid) :
        \E card \in MoveInputs(rid, seat) :
            Move(rid, seat, "play_card", card) /\ rooms' # rooms

SpecPlayFair == Init /\ [][Next]_vars /\ WF_vars(TurnSeatPlays)

\* ------------------- handlers with their state messages ----------------
\* a game message for table rid handled under the rooms lock and followed by
\* its broadcastState: the mutation r2 is applied if the handler's test ok
\* holds, and the state is broadcast whenever the table exists
Handle(rid, msg, ok, r2, taken) ==
    /\ CanHandle
    /\ req' = msg
    /\ IF rid \in DOMAIN rooms
       THEN /\ rooms' = [rooms EXCEPT ![rid] = IF ok THEN r2 ELSE @]
            /\ clients' = broadcastState(clients, rooms'[rid])
            /\ won' = IF ok THEN won \o taken ELSE won
       ELSE UNCHANGED <<rooms, clients, won>>

HandleStartChoice(rid, seat, choice, k, cut) ==
    Handle(rid, Msg("start_choice", seat, cut, choice, <<>>),
           StartChoiceApplies(rooms[rid], seat),
           StartChoiceEffect(rooms[rid], choice, k, cut), <<>>)

HandleCutProceed(rid, seat) ==
    Handle(rid, Msg("cut_proceed", seat, 0, "", <<>>),
           CutProceedApplies(rooms[rid], seat), CutProceedEffect(rooms[rid]), <<>>)

HandlePass(rid, seat) ==
    Handle(rid, Msg("pass", seat, 0, "", <<>>),
           PassApplies(rooms[rid], seat), PassEffect(rooms[rid], seat), <<>>)

HandleBid(rid, seat, bid) ==
    Handle(rid, Msg("bid", seat, bid, "", <<>>),
           BidApplies(rooms[rid], seat, bid), BidEffect(rooms[rid], seat, bid), <<>>)

HandlePickTrump(rid, seat, tr) ==
    Handle(rid, Msg("pick_trump", seat, 0, tr, <<>>),
           PickTrumpApplies(rooms[rid], seat, tr), PickTrumpEffect(rooms[rid], tr), <<>>)

HandleStayHome(rid, seat) ==
    Handle(rid, Msg("stay_home", seat, 0, "", <<>>),
           StayHomeApplies(rooms[rid], seat), StayHomeEffect(rooms[rid], seat), <<>>)

HandleExchangeDone(rid, seat) ==
    Handle(rid, Msg("exchange_done", seat, 0, "", <<>>),
           ExchangeDoneApplies(rooms[rid], seat), ExchangeDoneEffect(rooms[rid], seat), <<>>)

HandleMove(rid, seat, mv, card) ==
    Handle(rid, Msg("move", seat, 0, mv, <<card>>),
           MoveApplies(rooms[rid], seat, mv, card),
           MoveEffect(rooms[rid], seat, card), WonBy(rooms[rid], seat, card))

\* SpecConn: connections c1 and c2 and one table of two seats, from the empty
\* hub: create_table, join_table (also by a connection that already sits),
\* leave_table, then the hand up to the auction with every seat value in the
\* messages, and each connection's writePump.
ConnClients == {ClientName(1), ClientName(2)}

NextConn ==
    \/ \E c \in ConnClients, rid \in RoomIDs : CreateTable(c, rid, MinSeats)
    \/ \E c \in ConnClients, rid \in RoomIDs : JoinTable(c, rid)
    \/ \E c \in ConnClients : LeaveTable(c)
    \/ \E c \in ConnClients : WritePump(c)
    \/ \E rid \in RoomIDs : \E seat \in SeatInputs(rid) : HandleStartChoice(rid, seat, "cut", 0, 1)
    \/ \E rid \in RoomIDs : \E seat \in SeatInputs(rid) : HandleCutProceed(rid, seat)
    \/ \E rid \in RoomIDs : \E seat \in SeatInputs(rid) : HandlePass(rid, seat)
    \/ \E rid \in RoomIDs : \E seat \in SeatInputs(rid) : HandleBid(rid, seat, MinBid)

SpecConn == InitHub /\ [][NextConn]_vars

\* SpecLobby: the three connections and one table of two seats, from the
\* empty hub: create_table (seat counts below and at the minimum), join_table
\* (also by a connection that already sits, and on a full or unknown table),
\* leave_table, and each connection's writePump.
NextLobby ==
    \/ \E c \in Clients, rid \in RoomIDs, seats \in {MinSeats - 1, MinSeats} :
          CreateTable(c, rid, seats)
    \/ \E c \in Clients, rid \in RoomIDs : JoinTable(c, rid)
    \/ \E c \in Clients : LeaveTable(c)
    \/ \E c \in Clients : WritePump(c)

SpecLobby == InitHub /\ [][NextLobby]_vars

\* SpecTable: a full two-seat table after its startHand, all state messages
\* of the start written out; the whole hand with every seat value in the
\* messages, the bids 0, 1 and 2, and each connection's writePump.
InitTable ==
    /\ rooms = [r \in RoomIDs |-> SeatedRoom(MinSeats, MinSeats)]
    /\ clients = [c \in Clients |->
                    IF c \in ConnClients
                    THEN [roomID |-> "r1", send |-> <<>>,
                          seat |-> CHOOSE s \in 0..(MinSeats - 1) : ClientName(s + 1) = c]
                    ELSE [roomID |-> "", seat |-> -1, send |-> <<>>]]
    /\ req = NoMsg
    /\ won = <<>>

NextTable ==
    \/ \E c \in ConnClients : WritePump(c)
    \/ \E rid \in RoomIDs : \E seat \in SeatInputs(rid) : HandleStartChoice(rid, seat, "cut", 0, 1)
    \/ \E rid \in RoomIDs : \E seat \in SeatInputs(rid) : HandleCutProceed(rid, seat)
    \/ \E rid \in RoomIDs : \E seat \in SeatInputs(rid) : HandlePass(rid, seat)
    \/ \E rid \in RoomIDs : \E seat \in SeatInputs(rid), bid \in (MinBid - 1)..(MinBid + 1) :
          HandleBid(rid, seat, bid)
    \/ \E rid \in RoomIDs : \E seat \in SeatInputs(rid), tr \in SomeTrumps : HandlePickTrump(rid, seat, tr)
    \/ \E rid \in RoomIDs : \E seat \in SeatInputs(rid) : HandleStayHome(rid, seat)
    \/ \E rid \in RoomIDs : \E seat \in SeatInputs(rid) : HandleExchangeDone(rid, seat)
    \/ \E rid \in RoomIDs : \E seat \in SeatInputs(rid) :
          \E card \in MoveInputs(rid, seat) : HandleMove(rid, seat, "play_card", card)

SpecTable == InitTable /\ [][NextTable]_vars

\* SpecLeave: the full two-seat table of SpecTable whose connections may also
\* send leave_table at any point of the hand.
NextLeave ==
    \/ NextTable
    \/ \E c \in ConnClients : LeaveTable(c)

SpecLeave == InitTable /\ [][NextLeave]_vars

\* SpecFull: the full two-seat table of SpecTable where the connection of
\* seat 0 does not read: its writePump is stalled in conn.Write and its send
\* channel holds SendCap - 1 state messages of the start of the hand.  The
\* whole hand as in SpecTable; only the other connection's writePump runs.
StalledClient == ClientName(1)

InitFull ==
    /\ rooms = [r \in RoomIDs |-> SeatedRoom(MinSeats, MinSeats)]
    /\ clients = [c \in Clients |->
                    IF c \in ConnClients
                    THEN LET seat == CHOOSE s \in 0..(MinSeats - 1) : ClientName(s + 1) = c
                         IN [roomID |-> "r1", seat |-> seat,
                             send |-> IF c = StalledClient
                                      THEN [i \in 1..(SendCap - 1) |->
                                              StateMsg(sendStateTo(seat, SeatedRoom(MinSeats, MinSeats)))]
                                      ELSE <<>>]
                    ELSE [roomID |-> "", seat |-> -1, send |-> <<>>]]
    /\ req = NoMsg
    /\ won = <<>>

NextFull ==
    \/ \E c \in ConnClients \ {StalledClient} : WritePump(c)
    \/ \E rid \in RoomIDs : \E seat \in SeatInputs(rid) : HandleStartChoice(rid, seat, "cut", 0, 1)
    \/ \E rid \in RoomIDs : \E seat \in SeatInputs(rid) : HandleCutProceed(rid, seat)
    \/ \E rid \in RoomIDs : \E seat \in SeatInputs(rid) : HandlePass(rid, seat)
    \/ \E rid \in RoomIDs : \E seat \in SeatInputs(rid), bid \in (MinBid - 1)..(MinBid + 1) :
          HandleBid(rid, seat, bid)
    \/ \E rid \in RoomIDs : \E seat \in SeatInputs(rid), tr \in SomeTrumps : HandlePickTrump(rid, seat, tr)
    \/ \E rid \in RoomIDs : \E seat \in SeatInputs(rid) : HandleStayHome(rid, seat)
    \/ \E rid \in RoomIDs : \E seat \in SeatInputs(rid) : HandleExchangeDone(rid, seat)
    \/ \E rid \in RoomIDs : \E seat \in SeatInputs(rid) :
          \E card \in MoveInputs(rid, seat) : HandleMove(rid, seat, "play_card", card)

SpecFull == InitFull /\ [][NextFull]_vars

\* ------------------- handlers running concurrently ---------------------
\* Each connection's readPump runs handleMessage on its own goroutine.  A game
\* case is one step under the rooms lock (test and mutation), then, the lock
\* released, broadcastState: for every connection of the table sendStateTo
\* reads the room without the lock.  Its reads are taken in two groups, in
\* program order: the values computed before the message literal (counts,
\* names, passed, stayed, trick, cutPeek), then the fields read inside it.
\* The position of connection c's handler is clients[c].pc, the seats still to
\* be sent to are clients[c].todo, the first group read is clients[c].buf.
NoBuf == [to |-> -1, counts |-> <<>>, names |-> <<>>, passed |-> {}, stayed |-> {},
          trick |-> <<>>, cutPeek |-> <<>>]

\* the locked part of a game case by connection c
HandleLocked(c, rid, msg, ok, r2) ==
    /\ CanHandle
    /\ clients[c].pc = "idle"
    /\ rid \in DOMAIN rooms
    /\ req' = msg
    /\ rooms' = [rooms EXCEPT ![rid] = IF ok THEN r2 ELSE @]
    /\ LET conns == {s \in SeatsOf(rooms[rid]) : rooms[rid].PlayerIDs[s] # ""}
       IN clients' = [clients EXCEPT ![c].pc = IF conns = {} THEN "idle" ELSE "broadcast",
                                     ![c].todo = conns]
    /\ UNCHANGED won

\* sendStateTo for the next connection of the range loop, first group of reads
SendStateReadCounts(c, rid) ==
    /\ clients[c].pc = "broadcast"
    /\ rid \in DOMAIN rooms
    /\ \E s \in clients[c].todo :
         LET m == sendStateTo(clients[rooms[rid].PlayerIDs[s]].seat, rooms[rid])
         IN clients' = [clients EXCEPT
               ![c].pc = "sending",
               ![c].buf = [to |-> s, counts |-> m.counts, names |-> m.names,
                           passed |-> m.passed, stayed |-> m.stayed,
                           trick |-> m.trick, cutPeek |-> m.cutPeek]]
    /\ UNCHANGED <<rooms, req, won>>

\* sendStateTo, the reads of the message literal and the send
SendStateReadRest(c, rid) ==
    /\ clients[c].pc = "sending"
    /\ rid \in DOMAIN rooms
    /\ LET b == clients[c].buf
           to == rooms[rid].PlayerIDs[b.to]
           m == [sendStateTo(clients[to].seat, rooms[rid]) EXCEPT
                    !.counts = b.counts, !.names = b.names, !.passed = b.passed,
                    !.stayed = b.stayed, !.trick = b.trick, !.cutPeek = b.cutPeek]
           rest == clients[c].todo \ {b.to}
           cl1 == [clients EXCEPT ![c].pc = IF rest = {} THEN "idle" ELSE "broadcast",
                                  ![c].todo = rest, ![c].buf = NoBuf]
       IN clients' = send(cl1, to, StateMsg(m))
    /\ UNCHANGED <<rooms, req, won>>

\* SpecRace: the full two-seat table of SpecTable with both connections
\* handling start_choice, cut_proceed, pass and bid concurrently.
InitRace ==
    /\ rooms = [r \in RoomIDs |-> SeatedRoom(MinSeats, MinSeats)]
    /\ clients = [c \in Clients |->
                    IF c \in ConnClients
                    THEN [roomID |-> "r1", send |-> <<>>,
                          seat |-> CHOOSE s \in 0..(MinSeats - 1) : ClientName(s + 1) = c,
                          pc |-> "idle", todo |-> {}, buf |-> NoBuf]
                    ELSE [roomID |-> "", seat |-> -1, send |-> <<>>,
                          pc |-> "idle", todo |-> {}, buf |-> NoBuf]]
    /\ req = NoMsg
    /\ won = <<>>

NextRace ==
    \/ \E c \in ConnClients : WritePump(c)
    \/ \E c \in ConnClients, rid \in RoomIDs : SendStateReadCounts(c, rid)
    \/ \E c \in ConnClients, rid \in RoomIDs : SendStateReadRest(c, rid)
    \/ \E c \in ConnClients, rid \in RoomIDs : \E seat \in SeatInputs(rid) :
          HandleLocked(c, rid, Msg("start_choice", seat, 1, "cut", <<>>),
                       StartChoiceApplies(rooms[rid], seat),
                       StartChoiceEffect(rooms[rid], "cut", 0, 1))
    \/ \E c \in ConnClients, rid \in RoomIDs : \E seat \in SeatInputs(rid) :
          HandleLocked(c, rid, Msg("cut_proceed", seat, 0, "", <<>>),
                       CutProceedApplies(rooms[rid], seat), CutProceedEffect(rooms[rid]))
    \/ \E c \in ConnClients, rid \in RoomIDs : \E seat \in SeatInputs(rid) :
          HandleLocked(c, rid, Msg("pass", seat, 0, "", <<>>),
                       PassApplies(rooms[rid], seat), PassEffect(rooms[rid], seat))
    \/ \E c \in ConnClients, rid \in RoomIDs : \E seat \in SeatInputs(rid) :
          HandleLocked(c, rid, Msg("bid", seat, MinBid, "", <<>>),
                       BidApplies(rooms[rid], seat, MinBid), BidEffect(rooms[rid], seat, MinBid))

SpecRace == InitRace /\ [][NextRace]_vars

\* ------------------- join_table running concurrently -------------------
\* join_table is two critical sections: the seat is assigned under the rooms
\* lock; then, the lock released, the handler sends the state to the joiner,
\* computes full under the read lock, reads Started and Dealer, and calls
\* startHand (which takes the lock again and broadcasts) or broadcastState.
\* clients[c].pc is the position of connection c's handler.

\* the table after a whole join_table by c that nothing interleaves with
joinTableEffect(room, c) ==
    LET seat == FirstEmptySeat(room) IN
    IF seat = -1 THEN room
    ELSE LET r1 == [room EXCEPT !.PlayerIDs[seat] = c]
         IN IF IsFull(r1) /\ ~r1.Started /\ r1.Dealer = -1 THEN startHand(r1) ELSE r1

\* first critical section: seat lookup and assignment, or the error reply
JoinLocked(c, rid) ==
    /\ clients[c].pc = "idle"
    /\ clients[c].roomID = ""
    /\ req' = Msg("join_table", -1, 0, c, <<>>)
    /\ IF rid \notin DOMAIN rooms
       THEN /\ clients' = send(clients, c, ErrorMsg("room not found"))
            /\ UNCHANGED rooms
       ELSE LET seat == FirstEmptySeat(rooms[rid]) IN
            IF seat = -1
            THEN /\ clients' = send(clients, c, ErrorMsg("room full"))
                 /\ UNCHANGED rooms
            ELSE /\ rooms' = [rooms EXCEPT ![rid].PlayerIDs[seat] = c]
                 /\ clients' = [clients EXCEPT ![c].roomID = rid, ![c].seat = seat,
                                               ![c].pc = "joined"]
    /\ UNCHANGED won

\* state to the joiner, then the test full && !Started && Dealer == -1
JoinCheckFull(c) ==
    /\ clients[c].pc = "joined"
    /\ LET room == rooms[clients[c].roomID]
           cl1 == send(clients, c, StateMsg(sendStateTo(clients[c].seat, room)))
       IN clients' = [cl1 EXCEPT ![c].pc =
                         IF IsFull(room) /\ ~room.Started /\ room.Dealer = -1
                         THEN "startHand" ELSE "broadcast"]
    /\ UNCHANGED <<rooms, req, won>>

\* second critical section: startHand with its broadcast
JoinStartHand(c) ==
    /\ clients[c].pc = "startHand"
    /\ LET rid == clients[c].roomID
           r2 == startHand(rooms[rid])
       IN /\ rooms' = [rooms EXCEPT ![rid] = r2]
          /\ clients' = broadcastState([clients EXCEPT ![c].pc = "idle"], r2)
    /\ won' = <<>>
    /\ UNCHANGED req

JoinBroadcast(c) ==
    /\ clients[c].pc = "broadcast"
    /\ clients' = broadcastState([clients EXCEPT ![c].pc = "idle"], rooms[clients[c].roomID])
    /\ UNCHANGED <<rooms, req, won>>

\* SpecJoinRace: a fresh table of JoinSeats seats; every connection sends
\* join_table once, the handlers run concurrently, writePump drains.
JoinSeats == MinSeats

InitJoinRace ==
    /\ rooms = [r \in RoomIDs |-> NewRoom(JoinSeats)]
    /\ clients = [c \in Clients |->
                    [roomID |-> "", seat |-> -1, send |-> <<>>,
                     pc |-> "idle", todo |-> {}, buf |-> NoBuf]]
    /\ req = NoMsg
    /\ won = <<>>

NextJoinRace ==
    \/ \E c \in Clients : WritePump(c)
    \/ \E c \in Clients, rid \in RoomIDs : JoinLocked(c, rid)
    \/ \E c \in Clients : JoinCheckFull(c)
    \/ \E c \in Clients : JoinStartHand(c)
    \/ \E c \in Clients : JoinBroadcast(c)

SpecJoinRace == InitJoinRace /\ [][NextJoinRace]_vars

\* ---------------------- payload fields as received ---------------------
\* a payload field of the decoded JSON object: a number, a string, or absent
NumField(n) == [kind |-> "number", n |-> n, str |-> ""]
StrField(str) == [kind |-> "string", n |-> 0, str |-> str]
NoField == [kind |-> "missing", n |-> 0, str |-> ""]

\* toInt: the number of a numeric field, 0 for anything else
toInt(v) == IF v.kind = "number" THEN v.n ELSE 0

\* the request record of a game message whose seat field arrived as v
RawMsg(t, v, n, str, cards) ==
    [t |-> t, seat |-> toInt(v), n |-> n, s |-> str, cards |-> cards, seatField |-> v]

RawPass(rid, v) ==
    /\ IF rid \in DOMAIN rooms /\ PassApplies(rooms[rid], toInt(v))
       THEN /\ req' = RawMsg("pass", v, 0, "", <<>>)
            /\ rooms' = [rooms EXCEPT ![rid] = PassEffect(rooms[rid], toInt(v))]
       ELSE UNCHANGED <<rooms, req>>
    /\ UNCHANGED <<clients, won>>

RawBid(rid, v, bid) ==
    /\ IF rid \in DOMAIN rooms /\ BidApplies(rooms[rid], toInt(v), bid)
       THEN /\ req' = RawMsg("bid", v, bid, "", <<>>)
            /\ rooms' = [rooms EXCEPT ![rid] = BidEffect(rooms[rid], toInt(v), bid)]
       ELSE UNCHANGED <<rooms, req>>
    /\ UNCHANGED <<clients, won>>

RawMove(rid, v, mv, card) ==
    /\ IF rid \in DOMAIN rooms /\ MoveApplies(rooms[rid], toInt(v), mv, card)
       THEN /\ req' = RawMsg("move", v, 0, mv, <<card>>)
            /\ rooms' = [rooms EXCEPT ![rid] = MoveEffect(rooms[rid], toInt(v), card)]
            /\ won' = won \o WonBy(rooms[rid], toInt(v), card)
       ELSE UNCHANGED <<rooms, won, req>>
    /\ UNCHANGED clients

\* SpecRaw: the seated tables of Init; pass, bid and move arrive with a seat
\* field that is a number, a string spelling a number, or absent.
SeatFields(rid) == {NumField(n) : n \in SeatInputs(rid)} \cup {StrField("1"), NoField}

NextRaw ==
    \/ \E rid \in RoomIDs : \E seat \in SeatInputs(rid) : StartChoice(rid, seat, "cut", 0, 1)
    \/ \E rid \in RoomIDs : \E seat \in SeatInputs(rid) : CutProceed(rid, seat)
    \/ \E rid \in RoomIDs : \E v \in SeatFields(rid) : RawPass(rid, v)
    \/ \E rid \in RoomIDs : \E v \in SeatFields(rid), bid \in LowBids : RawBid(rid, v, bid)
    \/ \E rid \in RoomIDs : \E seat \in SeatInputs(rid), tr \in SomeTrumps : PickTrump(rid, seat, tr)
    \/ \E rid \in RoomIDs : \E seat \in SeatInputs(rid) : StayHome(rid, seat)
    \/ \E rid \in RoomIDs : \E seat \in SeatInputs(rid) : ExchangeDone(rid, seat)
    \/ \E rid \in RoomIDs : \E v \in SeatFields(rid) :
          \E card \in MoveInputs(rid, toInt(v)) : RawMove(rid, v, "play_card", card)

SpecRaw == Init /\ [][NextRaw]_vars

\* ------------------- game messages with their sender -------------------
\* a game case of handleMessage(c, typ, m): the connection c that sent the
\* message is an argument of the handler; the test ok and the mutation r2 are
\* those of the case, which reads the seat from the payload
FromConn(c, rid, msg, ok, r2, taken) ==
    /\ IF rid \in DOMAIN rooms /\ ok
       THEN /\ req' = [t |-> msg.t, seat |-> msg.seat, n |-> msg.n, s |-> msg.s,
                       cards |-> msg.cards, from |-> c]
            /\ rooms' = [rooms EXCEPT ![rid] = r2]
            /\ won' = won \o taken
       ELSE UNCHANGED <<rooms, req, won>>
    /\ UNCHANGED clients

\* SpecAuth: the seated tables of Init; every connection, seated at the table
\* or not, sends the game messages of a hand naming any seat of the table.
NextAuth ==
    \/ \E c \in Clients, rid \in RoomIDs : \E seat \in SeatInputs(rid) :
          FromConn(c, rid, Msg("start_choice", seat, 1, "cut", <<>>),
                   StartChoiceApplies(rooms[rid], seat),
                   StartChoiceEffect(rooms[rid], "cut", 0, 1), <<>>)
    \/ \E c \in Clients, rid \in RoomIDs : \E seat \in SeatInputs(rid) :
          FromConn(c, rid, Msg("cut_proceed", seat, 0, "", <<>>),
                   CutProceedApplies(rooms[rid], seat), CutProceedEffect(rooms[rid]), <<>>)
    \/ \E c \in Clients, rid \in RoomIDs : \E seat \in SeatInputs(rid) :
          FromConn(c, rid, Msg("pass", seat, 0, "", <<>>),
                   PassApplies(rooms[rid], seat), PassEffect(rooms[rid], seat), <<>>)
    \/ \E c \in Clients, rid \in RoomIDs : \E seat \in SeatInputs(rid), bid \in LowBids :
          FromConn(c, rid, Msg("bid", seat, bid, "", <<>>),
                   BidApplies(rooms[rid], seat, bid), BidEffect(rooms[rid], seat, bid), <<>>)
    \/ \E c \in Clients, rid \in RoomIDs : \E seat \in SeatInputs(rid), tr \in SomeTrumps :
          FromConn(c, rid, Msg("pick_trump", seat, 0, tr, <<>>),
                   PickTrumpApplies(rooms[rid], seat, tr), PickTrumpEffect(rooms[rid], tr), <<>>)
    \/ \E c \in Clients, rid \in RoomIDs : \E seat \in SeatInputs(rid) :
          FromConn(c, rid, Msg("exchange", seat, 0, "", <<HandOf(rid, seat)[1]>>),
                   ExchangeApplies(rooms[rid], seat, <<HandOf(rid, seat)[1]>>),
                   ExchangeEffect(rooms[rid], seat, <<HandOf(rid, seat)[1]>>, 0), <<>>)
    \/ \E c \in Clients, rid \in RoomIDs : \E seat \in SeatInputs(rid) :
          FromConn(c, rid, Msg("exchange_done", seat, 0, "", <<>>),
                   ExchangeDoneApplies(rooms[rid], seat), ExchangeDoneEffect(rooms[rid], seat), <<>>)
    \/ \E c \in Clients, rid \in RoomIDs : \E seat \in SeatInputs(rid) :
          \E card \in MoveInputs(rid, seat) :
             FromConn(c, rid, Msg("move", seat, 0, "play_card", <<card>>),
                      MoveApplies(rooms[rid], seat, "play_card", card),
                      MoveEffect(rooms[rid], seat, card), WonBy(rooms[rid], seat, card))

SpecAuth == Init /\ [][NextAuth]_vars

\* SpecSwamp: a full six-seat table (create_table with seats = 6), the
\* smallest on which the deal leaves a talon of three cards, so that the
\* exchange runs the talon dry and draws from the swamp.  The first bidder
\* bids 1, everybody acts in turn; exchange lists are the first two or three
\* cards of the hand or one card that is not held.
SwampSeats == DefaultSeats + DefaultSeats

InitSwamp ==
    /\ rooms = [r \in RoomIDs |-> SeatedRoom(SwampSeats, SwampSeats)]
    /\ clients = [c \in {ClientName(i) : i \in 1..SwampSeats} |->
                    [roomID |-> "r1",
                     seat |-> CHOOSE s \in 0..(SwampSeats - 1) : ClientName(s + 1) = c]]
    /\ req = NoMsg
    /\ won = <<>>

SwampExchangeInputs(rid, seat) ==
    LET h == HandOf(rid, seat) IN
    {SubSeq(h, 1, n) : n \in (ExchangeMaxCards - 1)..Min(Len(h), ExchangeMaxCards)}
      \cup {<<ForeignCard(rid, seat)>>}

FirstBidderOf(rid) == IF rid \in DOMAIN rooms THEN {rooms[rid].FirstBidder} ELSE {}

NextSwamp ==
    \/ \E rid \in RoomIDs : NewHand(rid)
    \/ \E rid \in RoomIDs : \E seat \in FirstBidderOf(rid) : StartChoice(rid, seat, "cut", 0, 1)
    \/ \E rid \in RoomIDs : \E seat \in FirstBidderOf(rid) : CutProceed(rid, seat)
    \/ \E rid \in RoomIDs : \E seat \in FirstBidderOf(rid) : Bid(rid, seat, MinBid)
    \/ \E rid \in RoomIDs : \E seat \in ActorOf(rid) : Pass(rid, seat)
    \/ \E rid \in RoomIDs : \E seat \in ActorOf(rid) : StayHome(rid, seat)
    \/ \E rid \in RoomIDs : \E seat \in ActorOf(rid) :
          \E cards \in SwampExchangeInputs(rid, seat), k \in 0..MaxShuffle :
             Exchange(rid, seat, cards, k)
    \/ \E rid \in RoomIDs : \E seat \in ActorOf(rid) : ExchangeDone(rid, seat)

SpecSwamp == InitSwamp /\ [][NextSwamp]_vars

\* SpecTrick: the last trick of a hand under ServeWS.  Every seat but the last
\* has played its last card, the last seat holds one card; the trick on the
\* table, the card still held, the trump suit and the leader range over all
\* choices of distinct cards of the deck, on tables of two and three seats.
LastTrickRoom(seats, leader, trump, trick, last) ==
    [NewRoom(seats) EXCEPT
        !.PlayerIDs = [s \in 0..(seats - 1) |-> ClientName(s + 1)],
        !.Dealer = 0, !.FirstBidder = 1 % seats, !.Actor = leader,
        !.BestBid = 2, !.BestBy = leader, !.handsStarted = 1,
        !.Phase = "play", !.Started = TRUE, !.Trump = trump,
        !.Lead = IF trick[1].Rank = "weli" THEN trump ELSE trick[1].Suit,
        !.Trick = trick,
        !.TrickBy = [i \in 1..Len(trick) |-> (leader + i - 1) % seats],
        !.Turn = (leader + Len(trick)) % seats,
        !.Hands = [s \in 0..(seats - 1) |->
                      IF s = (leader + Len(trick)) % seats THEN <<last>> ELSE <<>>]]

DeckIndex == 1..33

InitTrick ==
    /\ \E seats \in MinSeats..DefaultSeats, leader \in 0..(DefaultSeats - 1),
          a \in DeckIndex, b \in DeckIndex, c \in DeckIndex :
        \E trump \in TrumpNames :
          /\ leader < seats
          /\ a # c
          /\ (IF seats = MinSeats THEN b = a ELSE b # a /\ b # c)
          /\ rooms = [r \in RoomIDs |->
                LastTrickRoom(seats, leader, trump,
                              IF seats = MinSeats THEN <<mkDeck33[a]>>
                              ELSE <<mkDeck33[a], mkDeck33[b]>>,
                              mkDeck33[c])]
          /\ clients = [cl \in Clients |->
                IF \E s \in 0..(seats - 1) : ClientName(s + 1) = cl
                THEN [roomID |-> "r1",
                      seat |-> CHOOSE s \in 0..(seats - 1) : ClientName(s + 1) = cl]
                ELSE [roomID |-> "", seat |-> -1]]
    /\ req = NoMsg
    /\ won = <<>>

NextTrick ==
    \E rid \in RoomIDs : \E seat \in SeatInputs(rid) :
        \E c \in Range(HandOf(rid, seat)) \cup {mkDeck33[1]} :
            ServeMove(rid, seat, "play_card", c)

SpecTrick == InitTrick /\ [][NextTrick]_vars

\* ------------------------------ properties -----------------------------
R == rooms["r1"]
RNext == rooms'["r1"]
Applied == rooms' # rooms

RECURSIVE HandCards(_, _)
HandCards(room, s) ==
    IF s >= room.Seats THEN <<>> ELSE room.Hands[s] \o HandCards(room, s + 1)

\* every card the table holds: hands, talon, swamp, current trick
TableCards(room) == HandCards(room, 0) \o room.stock \o room.swamp \o room.Trick

Distinct(seq) == Cardinality(Range(seq)) = Len(seq)

Dealt(room) == room.Phase \in {"bidding", "pick_trump", "exchange", "play"} \/ room.HandOver

\* C1: from the deal until the hand is over the cards of the hands, the talon,
\* the swamp, the current trick and the completed tricks are exactly the 33
\* cards of the deck, none missing and none twice.
C1_CardConservation ==
    Dealt(R) =>
        /\ Len(TableCards(R) \o won) = 33
        /\ Range(TableCards(R) \o won) = Range(buildMulatschakDeck)

\* C2: no card is in two places at once: over all hands, the talon, the swamp
\* and the current trick every card occurs at most once.
C2_NoCardTwice == Distinct(TableCards(R))

\* C2 witness: an exchange that listed the same card twice has been applied
C2_Witness ==
    /\ req.t = "exchange" /\ Len(req.cards) = 2 /\ req.cards[1] = req.cards[2]
    /\ Len(R.swamp) >= 1
    /\ Distinct(TableCards(R))

ActorMessages ==
    {"start_choice", "cut_proceed", "pass", "bid", "stay_home", "exchange", "exchange_done"}

\* C3: in start, cut, bidding and exchange only the seat equal to actor acts:
\* a message of these types that changes the table carries seat = actor (and a
\* pass is applied only in bidding by an unpassed actor).
C3_OnlyActorActs ==
    [][(Applied /\ req'.t \in ActorMessages) =>
          /\ req'.seat = R.Actor
          /\ (req'.t = "pass" => R.Phase = "bidding" /\ req'.seat \notin R.Passed)]_vars

\* C4: a play_card move is applied only in phase play, hand not over, by the
\* seat whose turn it is, with a card of that seat's hand; exactly that card
\* leaves the hand and goes to the end of the trick (the trick being taken off
\* the table in the same step when it is complete); nothing else moves.
C4_MoveApplied ==
    [][(Applied /\ req'.t = "move") =>
          LET seat == req'.seat
              card == req'.cards[1]
          IN /\ R.Phase = "play" /\ ~R.HandOver /\ req'.s = "play_card"
             /\ seat = R.Turn
             /\ card \in Range(R.Hands[seat])
             /\ Len(RNext.Hands[seat]) = Len(R.Hands[seat]) - 1
             /\ Range(RNext.Hands[seat]) = Range(R.Hands[seat]) \ {card}
             /\ \A s \in SeatsOf(R) \ {seat} : RNext.Hands[s] = R.Hands[s]
             /\ RNext.stock = R.stock /\ RNext.swamp = R.swamp
             /\ \/ RNext.Trick = Append(R.Trick, card) /\ won' = won
                \/ RNext.Trick = <<>> /\ won' = won \o Append(R.Trick, card)]_vars

\* C4 witness: a card has been played to a trick that is still open
C4_Witness ==
    /\ req.t = "move" /\ R.Phase = "play"
    /\ Len(R.Trick) >= 1 /\ R.Trick[Len(R.Trick)] = req.cards[1]
    /\ R.TrickBy[Len(R.TrickBy)] = req.seat

\* C5: within a hand the phase advances start -> cut -> bidding ->
\* (pick_trump, only when the winning bid is not 1) -> exchange -> play ->
\* hand over; nothing goes back or skips, and only new_hand returns to start.
PhaseStep(r, r2) ==
    \/ r.Phase = "start" /\ r2.Phase = "cut"
    \/ r.Phase = "cut" /\ r2.Phase = "bidding"
    \/ r.Phase = "bidding" /\ r2.Phase = "pick_trump" /\ r2.BestBid # 1
    \/ r.Phase = "bidding" /\ r2.Phase = "exchange" /\ r2.BestBid = 1
    \/ r.Phase = "pick_trump" /\ r2.Phase = "exchange"
    \/ r.Phase = "exchange" /\ r2.Phase = "play"
    \/ r.Phase = "play" /\ r2.Phase = "" /\ r2.HandOver

C5_PhaseOrder ==
    [][/\ (RNext.Phase # R.Phase =>
             \/ req'.t = "new_hand" /\ RNext.Phase = "start"
             \/ req'.t # "new_hand" /\ PhaseStep(R, RNext))
       /\ (Applied /\ RNext.Phase = "start" => req'.t = "new_hand")]_vars

\* C5 witness: a hand that went through pick_trump has reached hand over
C5_Witness == R.HandOver /\ R.Phase = "" /\ R.BestBid = 2 /\ R.Trump = "clubs"

\* the first occupied unpassed seat after `from` in seat order (from itself last)
NextUnpassedAfter(room, from) ==
    CHOOSE s \in ActiveBidders(room) :
        \A t \in ActiveBidders(room) :
            ((s - from - 1) % room.Seats) <= ((t - from - 1) % room.Seats)

\* C6: a bid is accepted only in bidding, from the actor, with 1 <= bid <= 5
\* and bid > bestBid; it sets bestBid and bestBy and moves actor to the next
\* occupied unpassed seat; bestBid never decreases in an auction and bestBy is
\* none exactly when bestBid = 0.
C6_BidRule ==
    [][/\ (Applied /\ req'.t = "bid") =>
             /\ R.Phase = "bidding" /\ req'.seat = R.Actor
             /\ req'.n >= 1 /\ req'.n <= 5 /\ req'.n > R.BestBid
             /\ RNext.BestBid = req'.n /\ RNext.BestBy = req'.seat
             /\ ActiveBidders(RNext) # {}
             /\ RNext.Actor = NextUnpassedAfter(RNext, req'.seat)
       /\ (R.Phase = "bidding" /\ RNext.Phase = "bidding" /\ req'.t # "new_hand"
             => RNext.BestBid >= R.BestBid)
       /\ ((RNext.BestBy = -1) <=> (RNext.BestBid = 0))]_vars

\* C7: the auction terminates: from bidding, with the awaited seat acting, the
\* phase eventually leaves bidding, and when it does exactly one occupied seat
\* is unpassed and that seat is actor and declarer.
C7_AuctionTerminates ==
    /\ (R.Phase = "bidding") ~> (R.Phase # "bidding")
    /\ [][(R.Phase = "bidding" /\ RNext.Phase \in {"pick_trump", "exchange"}) =>
             /\ Cardinality(ActiveBidders(RNext)) = 1
             /\ RNext.Actor \in ActiveBidders(RNext)
             /\ RNext.BestBy = RNext.Actor]_vars

\* C8: when every seat but one has passed and no bid was placed, the hand
\* resolves at once: the remaining seat is declarer, trump is hearts and the
\* phase leaves bidding.
C8_AllPassResolves ==
    [][(Applied /\ req'.t = "pass" /\ R.BestBid = 0
          /\ Cardinality(ActiveBidders(RNext)) = 1) =>
          /\ RNext.Phase # "bidding"
          /\ RNext.Trump = "hearts"
          /\ RNext.BestBy \in ActiveBidders(RNext)]_vars

C10_BidOneFixesHearts ==
    [][(Applied /\ req'.t = "bid") =>
          /\ (req'.n = 1 => RNext.Trump = "hearts")
          /\ (req'.n # 1 => req'.n >= 2)]_vars

\* C10 amended: an accepted bid of 1 leaves trump unset; trump becomes hearts
\* in the step that ends the auction with winning bid 1, and only then; every
\* other accepted bid is at least 2.
C10_BidOneDefersHearts ==
    [][/\ (Applied /\ req'.t = "bid") =>
             /\ R.Trump = "" /\ RNext.Trump = ""
             /\ (req'.n # 1 => req'.n >= 2)
       /\ (R.Phase = "bidding" /\ RNext.Trump # R.Trump /\ req'.t # "new_hand" =>
             /\ req'.t = "pass" /\ R.BestBid = 1
             /\ RNext.Trump = "hearts" /\ RNext.Phase = "exchange")
       /\ (R.Phase = "bidding" /\ R.BestBid = 1 /\ RNext.Phase \in {"pick_trump", "exchange"} =>
             RNext.Trump = "hearts")]_vars

\* C10 witness: a bid of 1 stands in a running auction and trump is unset
C10_Witness ==
    /\ req.t = "bid" /\ req.n = 1 /\ R.Phase = "bidding"
    /\ R.BestBid = 1 /\ R.Trump = ""

\* C11: a pick_trump message changes the table only in phase pick_trump, from
\* the winning bidder, naming hearts, spades, clubs or diamonds; then trump is
\* that suit, the phase is exchange and actor is the winning bidder; any other
\* pick_trump message changes nothing.
C11_PickTrump ==
    [][/\ (Applied /\ req'.t = "pick_trump") =>
             /\ R.Phase = "pick_trump" /\ req'.seat = R.BestBy
             /\ req'.s \in {"hearts", "spades", "clubs", "diamonds"}
             /\ RNext.Trump = req'.s /\ RNext.Phase = "exchange"
             /\ RNext.Actor = R.BestBy /\ RNext.BestBy = R.BestBy
       /\ (R.Phase = "pick_trump" /\ RNext.Phase # "pick_trump" /\ req'.t # "new_hand" =>
             req'.t = "pick_trump")]_vars

\* C11 witness: the winning bidder has picked diamonds and the exchange begins
C11_Witness ==
    /\ req.t = "pick_trump" /\ req.s = "diamonds" /\ req.seat = R.BestBy
    /\ R.Phase = "exchange" /\ R.Trump = "diamonds" /\ R.Actor = R.BestBy

ExchangeMessages == {"stay_home", "exchange", "exchange_done"}

\* occupied seats that have not acted in the exchange
Unacted(room) == {s \in SeatsOf(room) : room.PlayerIDs[s] # "" /\ s \notin room.Acted}

\* the first of them after `from` in seat order
NextUnactedAfter(room, from) ==
    CHOOSE s \in Unacted(room) :
        \A t \in Unacted(room) :
            ((s - from - 1) % room.Seats) <= ((t - from - 1) % room.Seats)

\* C12: the exchange starts with actor = bestBy and nobody acted; each accepted
\* stay_home, exchange or exchange_done comes from a seat that has not acted,
\* marks it acted and moves actor to the next occupied seat in seat order that
\* has not acted; the phase becomes play, with turn = bestBy, exactly when
\* every occupied seat has acted.
C12_ExchangeOrder ==
    [][/\ (R.Phase # "exchange" /\ RNext.Phase = "exchange") =>
             RNext.Actor = RNext.BestBy /\ RNext.Acted = {}
       /\ (Applied /\ req'.t \in ExchangeMessages) =>
             /\ R.Phase = "exchange" /\ req'.seat = R.Actor /\ req'.seat \notin R.Acted
             /\ RNext.Acted = R.Acted \cup {req'.seat}
             /\ IF Unacted(RNext) = {}
                THEN RNext.Phase = "play" /\ RNext.Turn = R.BestBy
                ELSE /\ RNext.Phase = "exchange"
                     /\ RNext.Actor = NextUnactedAfter(RNext, req'.seat)
       /\ (R.Phase = "exchange" /\ RNext.Phase # "exchange" /\ req'.t # "new_hand" =>
             req'.t \in ExchangeMessages /\ RNext.Phase = "play" /\ Unacted(RNext) = {})]_vars

\* C12 witness: on a full three-seat table the third seat to act has closed
\* the exchange and the winning bidder, who is not the first bidder, leads
C12_Witness ==
    /\ req.t \in ExchangeMessages /\ R.Phase = "play" /\ R.Trick = <<>>
    /\ Cardinality(R.Acted) = 3 /\ Unacted(R) = {}
    /\ R.Turn = R.BestBy /\ R.BestBy # R.FirstBidder /\ Len(won) = 0

\* C13: an exchange is applied only in phase exchange, from the actor, with a
\* list of 1..exchangeMax cards all held by the seat; otherwise hands, talon
\* and swamp stay as they are; an applied exchange never draws more cards than
\* it discarded from the hand (the hand does not grow).
C13_ExchangeValidated ==
    [][/\ (Applied /\ req'.t = "exchange") =>
             /\ R.Phase = "exchange" /\ req'.seat = R.Actor
             /\ Len(req'.cards) >= 1 /\ Len(req'.cards) <= R.exchangeMax
             /\ \A i \in 1..Len(req'.cards) : req'.cards[i] \in Range(R.Hands[req'.seat])
             /\ Len(RNext.Hands[req'.seat]) <= Len(R.Hands[req'.seat])
       /\ (R.Phase = "exchange" /\ req'.t # "new_hand"
             /\ (RNext.Hands # R.Hands \/ RNext.stock # R.stock \/ RNext.swamp # R.swamp)
             => Applied /\ req'.t = "exchange")]_vars

\* C14: stay_home is applied only in phase exchange, from the actor, who is not
\* the winning bidder, and when trump is not clubs; it marks the seat stayed
\* and moves no card; the stayed set changes in no other way within a hand, a
\* stayed seat keeps its hand, the winning bidder is never stayed and nobody
\* is stayed when trump is clubs.
C14_StayHome ==
    [][/\ (Applied /\ req'.t = "stay_home") =>
             /\ R.Phase = "exchange" /\ req'.seat = R.Actor
             /\ req'.seat # R.BestBy /\ R.Trump # "clubs"
             /\ RNext.Stayed = R.Stayed \cup {req'.seat}
             /\ RNext.Hands = R.Hands /\ RNext.stock = R.stock /\ RNext.swamp = R.swamp
       /\ (RNext.Stayed # R.Stayed /\ req'.t # "new_hand" => Applied /\ req'.t = "stay_home")
       /\ (req'.t # "new_hand" => \A s \in R.Stayed : RNext.Hands[s] = R.Hands[s])
       /\ RNext.BestBy \notin RNext.Stayed
       /\ (RNext.Trump = "clubs" => RNext.Stayed = {})]_vars

\* C14 witness: a seat other than the winning bidder stayed home under spades
\* and still holds its five dealt cards when the hand is played
C14_Witness ==
    /\ R.Phase = "play" /\ R.Trump = "spades" /\ R.Stayed # {}
    /\ R.BestBy \notin R.Stayed /\ Len(won) >= 2
    /\ \A s \in R.Stayed : Len(R.Hands[s]) = 5

\* the cards of the hand that an exchange list leaves in it, in hand order
KeptCards(hand, cards) == SelectSeq(hand, LAMBDA c : c \notin Range(cards))

\* C15: an accepted exchange of n cards takes its replacements from the front
\* of the talon first and from the swamp only when the talon has run out; it
\* stops after n cards or when both piles are empty, and a shortfall is no
\* error: min(n, talon) cards come off the talon, then min(rest, swamp) cards
\* off the swamp (e.g. n = 3 with 1 talon card: that card, then 2 swamp cards).
C15_DrawOrder ==
    [][(Applied /\ req'.t = "exchange") =>
          LET seat == req'.seat
              n == Len(req'.cards)
              kept == KeptCards(R.Hands[seat], req'.cards)
              disc == Len(R.Hands[seat]) - Len(kept)
              tal == Min(n, Len(R.stock))
              pool == Len(R.swamp) + disc
              sw == Min(n - tal, pool)
              hand == RNext.Hands[seat]
          IN /\ RNext.stock = SubSeq(R.stock, tal + 1, Len(R.stock))
             /\ Len(hand) = Len(kept) + tal + sw
             /\ SubSeq(hand, 1, Len(kept) + tal) = kept \o SubSeq(R.stock, 1, tal)
             /\ \A i \in (Len(kept) + tal + 1)..Len(hand) :
                    hand[i] \in Range(R.swamp) \cup (Range(R.Hands[seat]) \ Range(kept))
             /\ Len(RNext.swamp) = pool - sw
             /\ (sw > 0 => RNext.stock = <<>>)
             /\ (Len(R.stock) = 1 /\ n = 3 /\ disc = 3 => tal = 1 /\ sw = 2)]_vars

\* C15 witness: three cards were exchanged when the talon held only its last
\* card (the Weli): the hand is two kept cards, the Weli, two swamp cards
C15_Witness ==
    /\ req.t = "exchange" /\ Len(req.cards) = 3
    /\ R.stock = <<>> /\ R.swampShuffled
    /\ Len(R.Hands[req.seat]) = 5 /\ R.Hands[req.seat][3] = Weli

\* the number of cards an exchange takes from the swamp
SwampDraws(room, seat, cards) ==
    LET n == Len(cards)
        disc == Len(room.Hands[seat]) - Len(KeptCards(room.Hands[seat], cards))
    IN Min(n - Min(n, Len(room.stock)), Len(room.swamp) + disc)

\* C16: in one hand the swamp is shuffled at most once: the exchange that
\* first draws from the swamp shuffles it, no exchange that draws nothing from
\* the swamp shuffles it, no later exchange shuffles it again, and new_hand
\* re-arms the shuffle.
C16_SwampShuffledOnce ==
    [][/\ RNext.swampShuffles <= 1
       /\ (RNext.swampShuffled <=> RNext.swampShuffles = 1)
       /\ (req'.t = "new_hand" => RNext.swampShuffles = 0 /\ ~RNext.swampShuffled)
       /\ (RNext.swampShuffles # R.swampShuffles /\ req'.t # "new_hand" =>
             Applied /\ req'.t = "exchange")
       /\ (Applied /\ req'.t = "exchange" =>
             IF SwampDraws(R, req'.seat, req'.cards) > 0
             THEN RNext.swampShuffles = 1
             ELSE RNext.swampShuffles = R.swampShuffles)]_vars

\* C16 witness: in the second hand of the table the swamp has again been
\* shuffled once, and the exchange has gone on to the end after it
C16_Witness ==
    /\ R.handsStarted = 2 /\ R.swampShuffles = 1 /\ R.swampShuffled
    /\ R.stock = <<>> /\ R.Phase = "play" /\ req.t = "exchange"

\* C17 as stated: in no reachable state is turn a seat whose stayed flag is set.
C17_StayedNeverTurn == R.Turn \notin R.Stayed

\* the first occupied seat that has not stayed home after `from` in seat order
NextInAfter(room, from) ==
    CHOOSE s \in InPlayers(room) :
        \A t \in InPlayers(room) :
            ((s - from - 1) % room.Seats) <= ((t - from - 1) % room.Seats)

\* C17 amended: no step assigns turn to a stayed seat, and from the start of
\* play until the hand is over turn is never a stayed seat; a card played to
\* a trick that stays open passes the turn to the next occupied seat in seat
\* order that has not stayed home (it stays with the player when there is no
\* such seat).  During the exchange turn still names the first bidder, who
\* may stay home.
C17_StayedNotAssignedTurn ==
    [][/\ (RNext.Turn # R.Turn => RNext.Turn \notin RNext.Stayed)
       /\ (RNext.Phase = "play" \/ RNext.HandOver => RNext.Turn \notin RNext.Stayed)
       /\ (Applied /\ req'.t = "move" /\ RNext.Trick # <<>> =>
             RNext.Turn = IF InPlayers(RNext) = {} THEN req'.seat
                          ELSE NextInAfter(RNext, req'.seat))]_vars

\* C17 witness: in play the seat after the one that just played has stayed
\* home (it is the first bidder) and the turn has passed over it
C17_Witness ==
    /\ req.t = "move" /\ R.Phase = "play" /\ R.Trick # <<>>
    /\ nextSeat(R, req.seat) \in R.Stayed /\ R.FirstBidder \in R.Stayed
    /\ R.Turn # nextSeat(R, req.seat) /\ R.Turn \notin R.Stayed

\* C18: a trick completes exactly when it holds as many cards as there are
\* occupied seats that have not stayed home: the card that reaches this count
\* clears trick and lead suit in the same step, a card that does not reach it
\* is added to the open trick, and the trick is cleared in no other way
\* within a hand.
C18_TrickCompletion ==
    [][/\ (Applied /\ req'.t = "move") =>
             IF Len(R.Trick) + 1 = Cardinality(InPlayers(R))
             THEN RNext.Trick = <<>> /\ RNext.TrickBy = <<>> /\ RNext.Lead = ""
             ELSE /\ RNext.Trick = Append(R.Trick, req'.cards[1])
                  /\ RNext.TrickBy = Append(R.TrickBy, req'.seat)
                  /\ RNext.Lead = RNext.Trick[1].Suit
       /\ (R.Trick # <<>> /\ RNext.Trick = <<>> /\ req'.t # "new_hand" =>
             Applied /\ req'.t = "move" /\ Len(R.Trick) + 1 = Cardinality(InPlayers(R)))]_vars

\* C18 witness: on a full three-seat table with one seat staying home the
\* first trick has completed with two cards
C18_Witness ==
    /\ req.t = "move" /\ R.Seats = 3 /\ \A s \in SeatsOf(R) : R.PlayerIDs[s] # ""
    /\ Cardinality(R.Stayed) = 1 /\ R.Trick = <<>> /\ R.Lead = "" /\ Len(won) = 2

\* the rank order of the rule, ace high (ober and unter are the German names
\* of queen and jack)
RankStrength(r) ==
    IF r = "ace" THEN 8 ELSE IF r = "king" THEN 7
    ELSE IF r \in {"queen", "ober"} THEN 6 ELSE IF r \in {"jack", "unter"} THEN 5
    ELSE IF r = "ten" THEN 4 ELSE IF r = "nine" THEN 3
    ELSE IF r = "eight" THEN 2 ELSE 1

IsTrumpCard(c, trump) == c.Rank = "weli" \/ c.Suit = trump

\* trump-ace > Weli > trump-king > ... > trump-seven
TrumpStrength(c) ==
    IF c.Rank = "weli" THEN 19 ELSE IF c.Rank = "ace" THEN 20 ELSE RankStrength(c.Rank)

\* position of the card that wins the trick by the rule, 0 if the trick holds
\* neither a trump nor a card of the lead suit
RuleWinnerIdx(trick, trump, lead) ==
    LET T == {i \in 1..Len(trick) : IsTrumpCard(trick[i], trump)}
        L == {i \in 1..Len(trick) : trick[i].Suit = lead /\ trick[i].Rank # "weli"}
    IN IF T # {}
       THEN CHOOSE i \in T : \A j \in T : TrumpStrength(trick[i]) >= TrumpStrength(trick[j])
       ELSE IF L # {}
       THEN CHOOSE i \in L : \A j \in L :
               RankStrength(trick[i].Rank) >= RankStrength(trick[j].Rank)
       ELSE 0

\* C19: trickWinner returns the seat of the highest trump of the trick, the
\* Weli being a trump under every trump suit and ranking between the trump
\* ace and the trump king; without any trump it returns the seat of the
\* highest card of the lead suit (ace > king > queen > jack > ten > nine >
\* eight > seven); a card that is neither trump nor of the lead suit never wins.
C19_TrickWinnerRule ==
    [][(Applied /\ req'.t = "move" /\ RNext.Trick = <<>>) =>
          LET trick == Append(R.Trick, req'.cards[1])
              by == Append(R.TrickBy, req'.seat)
              w == RuleWinnerIdx(trick, R.Trump, R.Lead)
          IN /\ w >= 1
             /\ RNext.Turn = by[w]
             /\ (IsTrumpCard(trick[w], R.Trump) \/ trick[w].Suit = R.Lead)]_vars

\* C19 witness: hearts are trump, spades are led: king of spades (seat 0), ace
\* of hearts (seat 1), ace of spades (seat 2); the trick goes to seat 1
C19_Witness ==
    /\ won = <<Card("spades", "king"), Card("hearts", "ace"), Card("spades", "ace")>>
    /\ R.Trump = "hearts" /\ req.t = "move" /\ req.seat = 2
    /\ R.Trick = <<>> /\ R.Turn = 1

\* the lead suit of a trick: the suit of its first card, trump if that is the Weli
LeadOf(trick, trump) == IF trick[1].Rank = "weli" THEN trump ELSE trick[1].Suit

\* C20: when a trick completes, turn goes to the seat that played the winning
\* card by the trick winner rule (highest trump, the Weli included, else the
\* highest card of the lead suit): the winner leads the next trick.
C20_WinnerLeads ==
    [][(Applied /\ req'.t = "move" /\ RNext.Trick = <<>>) =>
          LET trick == Append(R.Trick, req'.cards[1])
              by == Append(R.TrickBy, req'.seat)
              w == RuleWinnerIdx(trick, R.Trump, LeadOf(trick, R.Trump))
          IN w >= 1 /\ RNext.Turn = by[w]]_vars

\* a hand holds the led suit: the Weli or a trump-suit card when trump is led,
\* otherwise a card of the led suit other than the Weli
HoldsLedSuit(hand, led, trump) ==
    \E c \in Range(hand) :
        IF led = trump THEN isWeli(c) \/ c.Suit = trump ELSE c.Suit = led /\ ~isWeli(c)

FollowsLed(c, led, trump) ==
    IF led = trump THEN isWeli(c) \/ c.Suit = trump ELSE c.Suit = led /\ ~isWeli(c)

\* C21: follow suit is enforced: a seat that is not leading the trick and
\* holds a card of the led suit has a play_card applied only for a card that
\* follows the led suit; any other card is rejected and changes nothing.
C21_FollowSuit ==
    [][(Applied /\ req'.t = "move" /\ R.Trick # <<>>
          /\ HoldsLedSuit(R.Hands[req'.seat], R.Lead, R.Trump)) =>
          FollowsLed(req'.cards[1], R.Lead, R.Trump)]_vars

\* C22: the lead suit of a trick is fixed by its first card (that card's suit,
\* the trump suit when the first card is the Weli) and stays the same until
\* the trick completes.
C22_LeadFixedByFirstCard ==
    [][/\ (Applied /\ req'.t = "move" /\ RNext.Trick # <<>>) =>
             RNext.Lead = LeadOf(RNext.Trick, RNext.Trump)
       /\ (R.Trick # <<>> /\ RNext.Trick # <<>> /\ req'.t # "new_hand" =>
             RNext.Lead = R.Lead)]_vars

\* C23: the hand ends when every occupied seat that has not stayed home has an
\* empty hand: the card that empties the last such hand sets handOver in the
\* same step, handOver is never set while such a seat holds a card, no
\* play_card is applied once it is set, and with the seat named by turn
\* playing whenever it can, play always leads to handOver (or to a new hand).
C23_HandEnds ==
    /\ [][/\ (RNext.HandOver => HandsEmpty(RNext))
          /\ (Applied /\ req'.t = "move" /\ HandsEmpty(RNext) => RNext.HandOver)
          /\ (R.HandOver => ~(Applied /\ req'.t = "move"))]_vars
    /\ ((R.Phase = "play") ~> (R.HandOver \/ R.Phase # "play"))

\* C24: if the cut revealed the Weli, then after cut_proceed the first bidder
\* holds the Weli in a hand of exactly five cards, and the Weli is in no other
\* hand and not in the talon.
C24_WeliCut ==
    [][(Applied /\ req'.t = "cut_proceed" /\ R.HasCutPeek /\ isWeli(R.CutPeek)) =>
          LET f == R.FirstBidder IN
          /\ \E c \in Range(RNext.Hands[f]) : isWeli(c)
          /\ Len(RNext.Hands[f]) = 5
          /\ \A s \in SeatsOf(R) \ {f} : \A c \in Range(RNext.Hands[s]) : ~isWeli(c)
          /\ \A c \in Range(RNext.stock) : ~isWeli(c)]_vars

\* a hand is in progress: cut, bidding, pick_trump, exchange, or play with
\* cards still to be played
HandInProgress(room) ==
    \/ room.Phase \in {"cut", "bidding", "pick_trump", "exchange"}
    \/ room.Phase = "play" /\ ~room.HandOver /\ ~HandsEmpty(room)

\* C25: new_hand takes effect only in a terminal or idle state; while a hand
\* is in progress (cut, bidding, pick_trump, exchange, play with cards left)
\* a new_hand request changes nothing.
C25_NewHandOnlyIdle ==
    [][(Applied /\ req'.t = "new_hand") => ~HandInProgress(R)]_vars

\* C26: every applied new_hand advances dealer by one seat modulo the seat
\* count (0 on the first hand), sets firstBidder = dealer + 1 modulo the seat
\* count, phase = start, actor = firstBidder, and resets hands, trick, lead
\* suit, trump, bestBid, bestBy, passed, stayed, acted, roundDouble, cutPeek,
\* talon, swamp and handOver.
C26_NewHandResets ==
    [][(Applied /\ req'.t = "new_hand") =>
          /\ RNext.Dealer = IF R.Dealer = -1 THEN 0 ELSE (R.Dealer + 1) % R.Seats
          /\ RNext.FirstBidder = (RNext.Dealer + 1) % R.Seats
          /\ RNext.Phase = "start"
          /\ RNext.Actor = RNext.FirstBidder
          /\ \A s \in SeatsOf(R) : RNext.Hands[s] = <<>>
          /\ RNext.Trick = <<>>
          /\ RNext.Lead = ""
          /\ RNext.Trump = ""
          /\ RNext.BestBid = 0
          /\ RNext.BestBy = -1
          /\ RNext.Passed = {}
          /\ RNext.Stayed = {}
          /\ RNext.Acted = {}
          /\ RNext.RoundDouble = FALSE
          /\ ~RNext.HasCutPeek /\ RNext.CutPeek = NoCard
          /\ RNext.stock = <<>>
          /\ RNext.swamp = <<>>
          /\ RNext.HandOver = FALSE]_vars

NewlySent(c) ==
    {clients'[c].send[i] : i \in (Len(clients[c].send) + 1)..Len(clients'[c].send)}

\* the seats of the table that connection c occupies
SeatsHeldBy(c, rms) ==
    IF "r1" \in DOMAIN rms
    THEN {s \in SeatsOf(rms["r1"]) : rms["r1"].PlayerIDs[s] = c} ELSE {}

\* C28: every state message put into a connection's channel shows, as hand
\* contents, the hand of a seat that connection occupies (nothing if it
\* occupies none); whatever the connections request, no message carries the
\* hand of another connection's seat.
C28_NoHandLeak ==
    [][\A c \in Clients : \A m \in NewlySent(c) :
          m.t = "state" =>
            \/ SeatsHeldBy(c, rooms') = {} /\ m.m.you = <<>>
            \/ \E s \in SeatsHeldBy(c, rooms') : m.m.you = RNext.Hands[s]]_vars

GameMessages ==
    {"start_choice", "cut_proceed", "pass", "bid", "pick_trump", "stay_home",
     "exchange", "exchange_done", "move"}

\* C29: a game message that is rejected (it leaves the table unchanged) puts
\* no message, error or state, into the send channel of any connection.
C29_SilentRejection ==
    [][(req'.t \in GameMessages /\ rooms' = rooms) =>
          \A c \in Clients : NewlySent(c) = {}]_vars

\* C30: every state message in a send channel is the projection of the table
\* at one instant.  In every table state the hand of a seat has as many cards
\* as its count says, so in a message that is such a projection the hand
\* carried for the receiving seat has the number of cards that the message's
\* counts give for that seat.
C30_AtomicSnapshot ==
    \A c \in Clients : \A i \in 1..Len(clients[c].send) :
        LET m == clients[c].send[i] IN
        (m.t = "state" /\ m.m.seat \in DOMAIN m.m.counts) =>
            m.m.counts[m.m.seat] = Len(m.m.you)

\* every join_table handler has run to its end and the table is full
JoinsDone ==
    /\ \A c \in Clients : clients[c].pc = "idle"
    /\ IsFull(R)

\* the tables that joins by the seated connections, applied one whole handler
\* after the other in the order of the seats, leave
RECURSIVE SerialJoins(_, _)
SerialJoins(room, s) ==
    IF s >= R.Seats THEN room ELSE SerialJoins(joinTableEffect(room, R.PlayerIDs[s]), s + 1)

\* C31: the effects of concurrent actions on a table equal those of
\* applying them one after the other in some order: when the concurrent
\* join_table handlers have finished, the table is the one that the same
\* joins leave when each handler runs alone, in the order the seats were taken.
C31_Serialized == JoinsDone => R = SerialJoins(NewRoom(R.Seats), 0)

\* C38: a fresh table is started exactly once: no second hand is ever started
\* by the joins, and when all join_table requests have been processed dealer =
\* 0, firstBidder = 1 mod seat count and phase = start.
C38_AutoStartOnce ==
    /\ R.handsStarted <= 1
    /\ JoinsDone => R.Dealer = 0 /\ R.FirstBidder = 1 % R.Seats /\ R.Phase = "start"

\* C32: a pass, bid or move whose seat field is absent or not a number leaves
\* the table unchanged: it is never applied as the action of some seat.
C32_MalformedDropped ==
    [][~(/\ Applied
         /\ req'.t \in {"pass", "bid", "move"}
         /\ "seatField" \in DOMAIN req'
         /\ req'.seatField.kind # "number")]_vars

\* a join_table for table r1 finds no such table or no empty seat
JoinFails == "r1" \notin DOMAIN rooms \/ FirstEmptySeat(R) = -1

\* C33: a join_table on an unknown table or on a table with no empty seat
\* sends one error message to the requesting connection, changes no table,
\* leaves the requester's table and seat fields as they were, and sends
\* nothing to any other connection.
C33_JoinErrors ==
    [][(req'.t = "join_table" /\ JoinFails /\ \E c \in Clients : NewlySent(c) # {}) =>
          LET c == req'.s IN
          /\ rooms' = rooms
          /\ clients'[c].send = Append(clients[c].send,
                                       ErrorMsg(IF "r1" \in DOMAIN rooms THEN "room full"
                                                ELSE "room not found"))
          /\ clients'[c].roomID = clients[c].roomID /\ clients'[c].seat = clients[c].seat
          /\ \A d \in Clients \ {c} : clients'[d] = clients[d]]_vars

\* a full table has refused a join: the requester holds the error, unseated
C33_Witness ==
    /\ req.t = "join_table" /\ "r1" \in DOMAIN rooms /\ IsFull(R)
    /\ R.PlayerIDs[0] # R.PlayerIDs[1]
    /\ clients[req.s].send = <<ErrorMsg("room full")>>
    /\ clients[req.s].roomID = ""
    /\ \A d \in Clients \ {req.s} : clients[d].send = <<>>

\* C34: after a connection leaves (or disconnects: the same removeClient), no
\* seat of the table is still occupied by it, however often it had joined;
\* and the table is removed from the registry exactly when the step vacated
\* its last occupied seat.
C34_LeaveFreesSeat ==
    [][(req'.t = "leave_table" /\ clients' = clients /\ "r1" \in DOMAIN rooms) =>
          LET c == req'.s
              others == {s \in SeatsOf(R) : R.PlayerIDs[s] \notin {"", c}}
          IN /\ SeatsHeldBy(c, rooms') = {}
             /\ "r1" \notin DOMAIN rooms' <=> (SeatsHeldBy(c, rooms) # {} /\ others = {})]_vars

\* the connections whose send channel is full
FullConns == {c \in Clients : Len(clients[c].send) = SendCap}

\* C35: a handler that sends while a connection's send channel is full
\* drops that connection's message and leaves its channel as it was; the
\* handler still runs to its end, and every other connection of the table
\* gets its state message of the same broadcast.
C35_BestEffortSend ==
    [][(FullConns # {} /\ (req' # req \/ rooms' # rooms \/ \E d \in Clients : NewlySent(d) # {})) =>
          /\ \A c \in FullConns : clients'[c].send = clients[c].send
          /\ \A s \in SeatsOf(RNext) :
                LET d == RNext.PlayerIDs[s] IN
                (d # "" /\ d \notin FullConns) =>
                    clients'[d].send = Append(clients[d].send,
                                              StateMsg(sendStateTo(clients[d].seat, RNext)))]_vars

\* the stalled connection's channel is full and the hand has gone on to the
\* auction all the same, the other connection holding the latest state
C35_Witness ==
    /\ Len(clients[StalledClient].send) = SendCap
    /\ R.Phase = "bidding" /\ R.BestBid = MinBid
    /\ clients[ClientName(2)].send = <<StateMsg(sendStateTo(1, R))>>

\* C36: a game message naming seat s changes the table only if the connection
\* that sent it occupies seat s of that table.
C36_SeatAuthority ==
    [][(Applied /\ req'.t \in GameMessages) =>
          /\ req'.seat \in SeatsOf(R)
          /\ R.PlayerIDs[req'.seat] = req'.from
          /\ clients[req'.from].roomID = "r1"
          /\ clients[req'.from].seat = req'.seat]_vars

\* C37: the awaited seat is always able to act: before play the actor is an
\* occupied seat (unpassed in bidding, not yet acted in exchange); in play with
\* the hand not over the turn is an occupied, non-stayed seat holding a card.
C37_AwaitedSeatCanAct ==
    "r1" \in DOMAIN rooms =>
       /\ R.Phase \in {"start", "cut", "bidding", "pick_trump", "exchange"} =>
             /\ R.Actor \in SeatsOf(R)
             /\ R.PlayerIDs[R.Actor] # ""
             /\ R.Phase = "bidding" => R.Actor \notin R.Passed
             /\ R.Phase = "exchange" => R.Actor \notin R.Acted
       /\ (R.Phase = "play" /\ ~R.HandOver) =>
             /\ R.Turn \in SeatsOf(R)
             /\ R.PlayerIDs[R.Turn] # ""
             /\ R.Turn \notin R.Stayed
             /\ Len(R.Hands[R.Turn]) >= 1

\* C39: every seat holds at most HandSize cards in every reachable state; after
\* the deal (phase bidding) every occupied seat holds exactly HandSize; an
\* applied exchange or move never makes a hand longer.
HandSizeBound ==
    "r1" \in DOMAIN rooms =>
       /\ \A s \in SeatsOf(R) : Len(R.Hands[s]) <= HandSize
       /\ R.Phase = "bidding" =>
             \A s \in SeatsOf(R) : R.PlayerIDs[s] # "" => Len(R.Hands[s]) = HandSize

HandsNeverGrow ==
    (Applied /\ req'.t \in {"exchange", "move"}) =>
       \A s \in SeatsOf(R) : Len(RNext.Hands[s]) <= Len(R.Hands[s])

C39_HandSize == []HandSizeBound /\ [][HandsNeverGrow]_vars

\* C40: within one trick every seat plays at most once: the seats recorded for
\* the current trick are pairwise distinct, the trick holds no more cards than
\* there are occupied non-stayed seats, and Trick and TrickBy have equal length.
C40_OncePerTrick ==
    "r1" \in DOMAIN rooms =>
       /\ Len(R.Trick) = Len(R.TrickBy)
       /\ \A i, j \in 1..Len(R.TrickBy) : i # j => R.TrickBy[i] # R.TrickBy[j]
       /\ Len(R.Trick) <= countInPlayers(R)

====
